---- MODULE Spec2Model ----
(***************************************************************************)
(* The Santa Claus problem of pgoodman/uwo-santa-clause, sleep-gate        *)
(* variant (src/unnamed/part_002, lines 1-417): one santa thread, a pool   *)
(* of elf threads and a pool of reindeer threads synchronised through a    *)
(* set of counting semaphores, a per-elf semaphore array, two counters and *)
(* the set of waiting elves.                                               *)
(*                                                                         *)
(* Every action is one atomic step of one thread: a single semaphore       *)
(* operation or a single access to shared memory.  The reads that the code *)
(* makes without the lock (num_reindeer_waiting by santa and by the        *)
(* reindeer, the cardinality of the set by santa) are steps of their own   *)
(* and see the value before or after any concurrent update.  Output        *)
(* (fprintf) and the busy wait of random_wait touch no shared state and    *)
(* are folded into the step that follows them; the sem_signal that ends a  *)
(* CRITICAL section is folded into the last protected access when that     *)
(* access needs no further decision (the lock is still held in the state   *)
(* before the step).  exit() stops every thread: no action is enabled once *)
(* status leaves "running".                                                *)
(***************************************************************************)
EXTENDS Integers, FiniteSets, Sequences, TLC

(* Pool sizes of the model.  The program runs 9 elves and 10 reindeer      *)
(* (#define NUM_ELVES 9, NUM_REINDEER 10); the model keeps the protocol    *)
(* and shrinks the pools.                                                  *)
NUM_ELVES == 4
NUM_REINDEER == 2

(* #define NUM_ELVES_PER_GROUP 3 *)
NUM_ELVES_PER_GROUP == 3

(* the literal 3 of santa's test `3 <= set_cardinality(elves_waiting)` *)
SANTA_GROUP_TEST == 3

Elves == 0 .. (NUM_ELVES - 1)
Reindeer == 0 .. (NUM_REINDEER - 1)

VARIABLES
    sem_set,                 \* the named semaphores, by name
    elf_line_set,            \* one semaphore per elf
    num_reindeer_waiting,
    num_elves_being_helped,
    elves_waiting,           \* the set of elves in line
    pc_santa, pc_elf, pc_reindeer,
    i, elf,                  \* locals of help_elves
    status,                  \* "running", or how the process ended
    resources_freed,         \* the static flag of free_resources
    freed,                   \* how often each resource was released
    hist                     \* history of the run, read by the properties only

vars == << sem_set, elf_line_set, num_reindeer_waiting, num_elves_being_helped,
           elves_waiting, pc_santa, pc_elf, pc_reindeer, i, elf, status,
           resources_freed, freed, hist >>

(***************************************************************************)
(* Semaphores (sem.h / sem.c): counting semaphores.                        *)
(***************************************************************************)
sem_can_wait(v) == v > 0
sem_wait(v) == v - 1
sem_signal(v) == v + 1
sem_signal_ntimes(v, n) == v + n

(***************************************************************************)
(* The set of waiting elves (set.h / set.c).                               *)
(***************************************************************************)
set_insert(set, item) == set \cup {item}
set_cardinality(set) == Cardinality(set)
set_take_from(set, item) == set \ {item}

(* what free_resources releases: the two semaphore sets and the set *)
Resources == {"sem_set", "elf_line_set", "elves_waiting"}

(* the history of a run in which nothing has happened yet *)
no_history ==
    [ taken            |-> {},
      signalled        |-> {},
      card_before      |-> 0,
      being_served     |-> {},
      helped           |-> [e \in Elves |-> 0],
      elf_triggers     |-> 0,
      reindeer_triggers |-> 0,
      sleigh_calls     |-> 0,
      credits          |-> 0,
      hitched          |-> [r \in Reindeer |-> 0],
      wake_both        |-> FALSE,
      free_calls       |-> 0,
      free_again       |-> FALSE ]

(***************************************************************************)
(* main: the state when launch_threads has started every thread.           *)
(***************************************************************************)
Init ==
    /\ sem_set = [ elf_mutex             |-> 1,
                   reindeer_counter_lock |-> 1,
                   elf_counter_lock      |-> 1,
                   santa_busy_mutex      |-> 1,
                   santa_sleep_mutex     |-> 0,
                   reindeer_counting_sem |-> 0,
                   elf_counting_sem      |-> NUM_ELVES_PER_GROUP ]
    /\ elf_line_set = [e \in Elves |-> 0]
    /\ num_reindeer_waiting = 0
    /\ num_elves_being_helped = 0
    /\ elves_waiting = {}
    /\ pc_santa = "zzz_lock"
    /\ pc_elf = [e \in Elves |-> "work"]
    /\ pc_reindeer = [r \in Reindeer |-> "vacation"]
    /\ i = 0
    /\ elf = 0
    /\ status = "running"
    /\ resources_freed = 0
    /\ freed = [res \in Resources |-> 0]
    /\ hist = no_history

Running == status = "running"

(* sem_wait(name) and sem_signal(name) on a semaphore of sem_set *)
SemWait(name) == [sem_set EXCEPT ![name] = sem_wait(@)]
SemSignal(name) == [sem_set EXCEPT ![name] = sem_signal(@)]

shared == << num_reindeer_waiting, num_elves_being_helped, elves_waiting >>
santa_locals == << i, elf >>
teardown == << resources_freed, freed >>

(* mutant: the body is not guarded by resources_freed *)
free_resources_Unguarded ==
    /\ resources_freed' = 1
    /\ freed' = [res \in Resources |-> freed[res] + 1]

(***************************************************************************)
(* free_resources: the at-exit handler registered by main.  The body runs  *)
(* when resources_freed is still 0: the flag is set and sem_empty_set is   *)
(* called on both semaphore sets and set_exit_free on the waiting set.     *)
(***************************************************************************)
free_resources ==
    IF resources_freed = 0
    THEN /\ resources_freed' = 1
         /\ freed' = [res \in Resources |-> freed[res] + 1]
    ELSE UNCHANGED << resources_freed, freed >>

(* exit(code): the process ends with `code` and the at-exit handler runs;  *)
(* no thread takes a step afterwards                                       *)
exit(code) ==
    /\ status' = code
    /\ free_resources

(***************************************************************************)
(* Santa: santa(), prepare_sleigh() and help_elves().                      *)
(***************************************************************************)

(* every sem_wait(santa_busy_mutex) of santa: the top of the loop          *)
(* (CRITICAL), prepare_sleigh, "completely lock santa", and help_elves     *)
SantaAfterBusy(pc) ==
    CASE pc = "zzz_lock"     -> "zzz_unlock"
      [] pc = "sleigh_lock"  -> "sleigh_signal"
      [] pc = "deliver_busy" -> "deliver_sleep"
      [] pc = "help_lock"    -> "counter_lock"

SantaWaitBusy ==
    /\ Running
    /\ pc_santa \in {"zzz_lock", "sleigh_lock", "deliver_busy", "help_lock"}
    /\ sem_can_wait(sem_set.santa_busy_mutex)
    /\ sem_set' = SemWait("santa_busy_mutex")
    /\ pc_santa' = SantaAfterBusy(pc_santa)
    /\ hist' = [hist EXCEPT
                  !.wake_both = IF pc_santa = "zzz_lock" THEN FALSE ELSE @,
                  !.sleigh_calls = IF pc_santa = "sleigh_lock" THEN @ + 1 ELSE @]
    /\ UNCHANGED << elf_line_set, shared, pc_elf, pc_reindeer, santa_locals, status >>

(* mutant: santa keeps santa_busy_mutex when he goes to sleep *)
SantaZzzUnlock_Keep ==
    /\ Running
    /\ pc_santa = "zzz_unlock"
    /\ pc_santa' = "sleep"
    /\ UNCHANGED << sem_set, elf_line_set, shared, pc_elf, pc_reindeer, santa_locals, status, hist >>

(* the end of CRITICAL(santa_busy_mutex, ...) at the top of the loop *)
SantaZzzUnlock ==
    /\ Running
    /\ pc_santa = "zzz_unlock"
    /\ sem_set' = SemSignal("santa_busy_mutex")
    /\ pc_santa' = "sleep"
    /\ UNCHANGED << elf_line_set, shared, pc_elf, pc_reindeer, santa_locals, status, hist >>

(* every sem_wait(santa_sleep_mutex) of santa: the sleep at the top of the *)
(* loop and the one after the sleigh has been prepared                     *)
SantaWaitSleep ==
    /\ Running
    /\ pc_santa \in {"sleep", "deliver_sleep"}
    /\ sem_can_wait(sem_set.santa_sleep_mutex)
    /\ sem_set' = SemWait("santa_sleep_mutex")
    /\ pc_santa' = IF pc_santa = "sleep" THEN "test_reindeer" ELSE "zzz_lock"
    /\ hist' = [hist EXCEPT
                  !.wake_both = IF pc_santa = "sleep"
                                THEN /\ num_reindeer_waiting >= NUM_REINDEER
                                     /\ set_cardinality(elves_waiting) >= NUM_ELVES_PER_GROUP
                                ELSE @]
    /\ UNCHANGED << elf_line_set, shared, pc_elf, pc_reindeer, santa_locals, status >>

(* mutant: santa goes for the sleigh when one reindeer is still missing *)
SantaTestReindeer_Early ==
    /\ Running
    /\ pc_santa = "test_reindeer"
    /\ pc_santa' = IF NUM_REINDEER - 1 <= num_reindeer_waiting
                   THEN "fix_counter" ELSE "test_elves"
    /\ UNCHANGED << sem_set, elf_line_set, shared, pc_elf, pc_reindeer, santa_locals, status, hist >>

(* mutant: NUM_REINDEER < num_reindeer_waiting *)
SantaTestReindeer_Strict ==
    /\ Running
    /\ pc_santa = "test_reindeer"
    /\ pc_santa' = IF NUM_REINDEER < num_reindeer_waiting
                   THEN "fix_counter" ELSE "test_elves"
    /\ UNCHANGED << sem_set, elf_line_set, shared, pc_elf, pc_reindeer, santa_locals, status, hist >>

(* mutant: the elves are tested before the reindeer *)
SantaTestReindeer_ElvesFirst ==
    /\ Running
    /\ pc_santa = "test_reindeer"
    /\ pc_santa' = IF SANTA_GROUP_TEST <= set_cardinality(elves_waiting)
                   THEN "help_lock"
                   ELSE IF NUM_REINDEER <= num_reindeer_waiting
                        THEN "fix_counter" ELSE "zzz_lock"
    /\ UNCHANGED << sem_set, elf_line_set, shared, pc_elf, pc_reindeer, santa_locals, status, hist >>

(* if(NUM_REINDEER <= num_reindeer_waiting): read without the lock *)
SantaTestReindeer ==
    /\ Running
    /\ pc_santa = "test_reindeer"
    /\ pc_santa' = IF NUM_REINDEER <= num_reindeer_waiting
                   THEN "fix_counter" ELSE "test_elves"
    /\ UNCHANGED << sem_set, elf_line_set, shared, pc_elf, pc_reindeer, santa_locals, status, hist >>

(* mutant: the counter is fixed to one less than the herd *)
SantaFixCounter_Low ==
    /\ Running
    /\ pc_santa = "fix_counter"
    /\ num_reindeer_waiting' = NUM_REINDEER - 1
    /\ pc_santa' = "sleigh_lock"
    /\ UNCHANGED << sem_set, elf_line_set, num_elves_being_helped, elves_waiting,
                    pc_elf, pc_reindeer, santa_locals, status, hist >>

(* num_reindeer_waiting = NUM_REINDEER: written without the lock *)
SantaFixCounter ==
    /\ Running
    /\ pc_santa = "fix_counter"
    /\ num_reindeer_waiting' = NUM_REINDEER
    /\ pc_santa' = "sleigh_lock"
    /\ UNCHANGED << sem_set, elf_line_set, num_elves_being_helped, elves_waiting,
                    pc_elf, pc_reindeer, santa_locals, status, hist >>

(* mutant: prepare_sleigh gives santa_busy_mutex back once the credits are out *)
SantaSleighSignal_Release ==
    /\ Running
    /\ pc_santa = "sleigh_signal"
    /\ sem_set' = [sem_set EXCEPT
                      !.reindeer_counting_sem = sem_signal_ntimes(@, NUM_REINDEER),
                      !.santa_busy_mutex = sem_signal(@)]
    /\ pc_santa' = "deliver_busy"
    /\ hist' = [hist EXCEPT !.credits =
                    @ + sem_set'.reindeer_counting_sem - sem_set.reindeer_counting_sem]
    /\ UNCHANGED << elf_line_set, shared, pc_elf, pc_reindeer, santa_locals, status >>

(* mutant: sem_signal in place of sem_signal_ntimes *)
SantaSleighSignal_Once ==
    /\ Running
    /\ pc_santa = "sleigh_signal"
    /\ sem_set' = SemSignal("reindeer_counting_sem")
    /\ pc_santa' = "deliver_busy"
    /\ hist' = [hist EXCEPT !.credits =
                    @ + sem_set'.reindeer_counting_sem - sem_set.reindeer_counting_sem]
    /\ UNCHANGED << elf_line_set, shared, pc_elf, pc_reindeer, santa_locals, status >>

(* prepare_sleigh: sem_signal_ntimes(reindeer_counting_sem, NUM_REINDEER) *)
SantaSleighSignal ==
    /\ Running
    /\ pc_santa = "sleigh_signal"
    /\ sem_set' = [sem_set EXCEPT !.reindeer_counting_sem =
                                      sem_signal_ntimes(@, NUM_REINDEER)]
    /\ pc_santa' = "deliver_busy"
    /\ hist' = [hist EXCEPT !.credits =
                    @ + sem_set'.reindeer_counting_sem - sem_set.reindeer_counting_sem]
    /\ UNCHANGED << elf_line_set, shared, pc_elf, pc_reindeer, santa_locals, status >>

(* else if(3 <= set_cardinality(elves_waiting)): read without elf_mutex *)
SantaTestElves ==
    /\ Running
    /\ pc_santa = "test_elves"
    /\ pc_santa' = IF SANTA_GROUP_TEST <= set_cardinality(elves_waiting)
                   THEN "help_lock" ELSE "zzz_lock"
    /\ UNCHANGED << sem_set, elf_line_set, shared, pc_elf, pc_reindeer, santa_locals, status, hist >>

(* help_elves: CRITICAL(elf_counter_lock, { *)
SantaCounterLock ==
    /\ Running
    /\ pc_santa = "counter_lock"
    /\ sem_can_wait(sem_set.elf_counter_lock)
    /\ sem_set' = SemWait("elf_counter_lock")
    /\ pc_santa' = "counter_set"
    /\ UNCHANGED << elf_line_set, shared, pc_elf, pc_reindeer, santa_locals, status, hist >>

(* mutant: the counter is set to one more than the group *)
SantaCounterSet_OneMore ==
    /\ Running
    /\ pc_santa = "counter_set"
    /\ num_elves_being_helped' = NUM_ELVES_PER_GROUP + 1
    /\ sem_set' = SemSignal("elf_counter_lock")
    /\ pc_santa' = "line_lock"
    /\ UNCHANGED << elf_line_set, num_reindeer_waiting, elves_waiting,
                    pc_elf, pc_reindeer, santa_locals, status, hist >>

(* mutant: elf_counter_lock is still held when help_elves goes on to elf_mutex *)
SantaCounterSet_NoUnlock ==
    /\ Running
    /\ pc_santa = "counter_set"
    /\ num_elves_being_helped' = NUM_ELVES_PER_GROUP
    /\ pc_santa' = "line_lock"
    /\ UNCHANGED << sem_set, elf_line_set, num_reindeer_waiting, elves_waiting,
                    pc_elf, pc_reindeer, santa_locals, status, hist >>

(* num_elves_being_helped = NUM_ELVES_PER_GROUP; }) *)
SantaCounterSet ==
    /\ Running
    /\ pc_santa = "counter_set"
    /\ num_elves_being_helped' = NUM_ELVES_PER_GROUP
    /\ sem_set' = SemSignal("elf_counter_lock")
    /\ pc_santa' = "line_lock"
    /\ UNCHANGED << elf_line_set, num_reindeer_waiting, elves_waiting,
                    pc_elf, pc_reindeer, santa_locals, status, hist >>

(* mutant: help_elves starts the removals without waiting for elf_mutex *)
SantaLineLock_NoWait ==
    /\ Running
    /\ pc_santa = "line_lock"
    /\ i' = 0
    /\ pc_santa' = IF 0 < NUM_ELVES_PER_GROUP THEN "take" ELSE "line_unlock"
    /\ hist' = [hist EXCEPT !.taken = {},
                            !.signalled = {},
                            !.card_before = set_cardinality(elves_waiting)]
    /\ UNCHANGED << sem_set, elf_line_set, shared, pc_elf, pc_reindeer, elf, status >>

(* help_elves: CRITICAL(elf_mutex, { ... for(i = 0; i < K; ++i) *)
SantaLineLock ==
    /\ Running
    /\ pc_santa = "line_lock"
    /\ sem_can_wait(sem_set.elf_mutex)
    /\ sem_set' = SemWait("elf_mutex")
    /\ i' = 0
    /\ pc_santa' = IF 0 < NUM_ELVES_PER_GROUP THEN "take" ELSE "line_unlock"
    /\ hist' = [hist EXCEPT !.taken = {},
                            !.signalled = {},
                            !.card_before = set_cardinality(elves_waiting)]
    /\ UNCHANGED << elf_line_set, shared, pc_elf, pc_reindeer, elf, status >>

(* mutant: set_take returns a member without removing it *)
SantaTake_NoRemove ==
    /\ Running
    /\ pc_santa = "take"
    /\ IF elves_waiting = {}
       THEN /\ status' = "failure"
            /\ UNCHANGED << elf, pc_santa, hist >>
       ELSE \E item \in elves_waiting :
              /\ elf' = item
              /\ pc_santa' = "signal_elf"
              /\ hist' = [hist EXCEPT !.taken = @ \cup {item},
                                      !.being_served = @ \cup {item}]
              /\ UNCHANGED status
    /\ UNCHANGED << sem_set, elf_line_set, shared, pc_elf, pc_reindeer, i >>

(* elf = set_take(elves_waiting): any member; taking from an empty set is  *)
(* the fatal invariant violation of the set                                *)
SantaTake ==
    /\ Running
    /\ pc_santa = "take"
    /\ IF elves_waiting = {}
       THEN /\ status' = "failure"
            /\ UNCHANGED << elves_waiting, elf, pc_santa, hist >>
       ELSE \E item \in elves_waiting :
              /\ elves_waiting' = set_take_from(elves_waiting, item)
              /\ elf' = item
              /\ pc_santa' = "signal_elf"
              /\ hist' = [hist EXCEPT !.taken = @ \cup {item},
                                      !.being_served = @ \cup {item}]
              /\ UNCHANGED status
    /\ UNCHANGED << sem_set, elf_line_set, num_reindeer_waiting,
                    num_elves_being_helped, pc_elf, pc_reindeer, i >>

(* mutant: the elf is signalled twice, sem_signal_index(&elf_line_set, elf, 2) *)
SantaSignalElf_Twice ==
    /\ Running
    /\ pc_santa = "signal_elf"
    /\ elf_line_set' = [elf_line_set EXCEPT ![elf] = sem_signal_ntimes(@, 2)]
    /\ i' = i + 1
    /\ pc_santa' = IF i + 1 < NUM_ELVES_PER_GROUP THEN "take" ELSE "line_unlock"
    /\ hist' = [hist EXCEPT !.signalled = @ \cup {elf}]
    /\ UNCHANGED << sem_set, shared, pc_elf, pc_reindeer, elf, status >>

(* mutant: the loop runs while i <= NUM_ELVES_PER_GROUP *)
SantaSignalElf_OneMore ==
    /\ Running
    /\ pc_santa = "signal_elf"
    /\ elf_line_set' = [elf_line_set EXCEPT ![elf] = sem_signal(@)]
    /\ i' = i + 1
    /\ pc_santa' = IF i + 1 <= NUM_ELVES_PER_GROUP THEN "take" ELSE "line_unlock"
    /\ hist' = [hist EXCEPT !.signalled = @ \cup {elf}]
    /\ UNCHANGED << sem_set, shared, pc_elf, pc_reindeer, elf, status >>

(* sem_signal_index(&elf_line_set, elf, 1); ++i; i < K *)
SantaSignalElf ==
    /\ Running
    /\ pc_santa = "signal_elf"
    /\ elf_line_set' = [elf_line_set EXCEPT ![elf] = sem_signal(@)]
    /\ i' = i + 1
    /\ pc_santa' = IF i + 1 < NUM_ELVES_PER_GROUP THEN "take" ELSE "line_unlock"
    /\ hist' = [hist EXCEPT !.signalled = @ \cup {elf}]
    /\ UNCHANGED << sem_set, shared, pc_elf, pc_reindeer, elf, status >>

SantaLineUnlock ==
    /\ Running
    /\ pc_santa = "line_unlock"
    /\ sem_set' = SemSignal("elf_mutex")
    /\ pc_santa' = "zzz_lock"
    /\ i' = 0
    /\ elf' = 0
    /\ hist' = [hist EXCEPT !.elf_triggers = @ - 1,
                            !.taken = {},
                            !.signalled = {},
                            !.card_before = 0]
    /\ UNCHANGED << elf_line_set, shared, pc_elf, pc_reindeer, status >>

Santa ==
    /\ \/ SantaWaitBusy \/ SantaZzzUnlock \/ SantaWaitSleep
       \/ SantaTestReindeer \/ SantaFixCounter \/ SantaSleighSignal
       \/ SantaTestElves
       \/ SantaCounterLock \/ SantaCounterSet
       \/ SantaLineLock \/ SantaTake \/ SantaSignalElf \/ SantaLineUnlock
    /\ UNCHANGED teardown

(***************************************************************************)
(* Elves: elf() and get_help().                                            *)
(***************************************************************************)

(* random_wait; sem_wait(elf_counting_sem) *)
ElfWork(e) ==
    /\ Running
    /\ pc_elf[e] = "work"
    /\ sem_can_wait(sem_set.elf_counting_sem)
    /\ sem_set' = SemWait("elf_counting_sem")
    /\ pc_elf' = [pc_elf EXCEPT ![e] = "line_lock"]
    /\ UNCHANGED << elf_line_set, shared, pc_santa, pc_reindeer, santa_locals, status, hist >>

(* CRITICAL(elf_mutex, { *)
ElfLineLock(e) ==
    /\ Running
    /\ pc_elf[e] = "line_lock"
    /\ sem_can_wait(sem_set.elf_mutex)
    /\ sem_set' = SemWait("elf_mutex")
    /\ pc_elf' = [pc_elf EXCEPT ![e] = "insert"]
    /\ UNCHANGED << elf_line_set, shared, pc_santa, pc_reindeer, santa_locals, status, hist >>

(* mutant: santa is woken one elf early *)
ElfInsert_EarlyWake(e) ==
    /\ Running
    /\ pc_elf[e] = "insert"
    /\ elves_waiting' = set_insert(elves_waiting, e)
    /\ pc_elf' = [pc_elf EXCEPT ![e] =
                     IF NUM_ELVES_PER_GROUP - 1 = set_cardinality(set_insert(elves_waiting, e))
                     THEN "wake_santa" ELSE "line_unlock"]
    /\ UNCHANGED << sem_set, elf_line_set, num_reindeer_waiting, num_elves_being_helped,
                    pc_santa, pc_reindeer, santa_locals, status, hist >>

(* set_insert(elves_waiting, id);                                          *)
(* if(NUM_ELVES_PER_GROUP == set_cardinality(elves_waiting))               *)
ElfInsert(e) ==
    /\ Running
    /\ pc_elf[e] = "insert"
    /\ elves_waiting' = set_insert(elves_waiting, e)
    /\ pc_elf' = [pc_elf EXCEPT ![e] =
                     IF NUM_ELVES_PER_GROUP = set_cardinality(set_insert(elves_waiting, e))
                     THEN "wake_santa" ELSE "line_unlock"]
    /\ UNCHANGED << sem_set, elf_line_set, num_reindeer_waiting, num_elves_being_helped,
                    pc_santa, pc_reindeer, santa_locals, status, hist >>

(* mutant: the wakeup of santa is lost *)
ElfWakeSanta_Lost(e) ==
    /\ Running
    /\ pc_elf[e] = "wake_santa"
    /\ pc_elf' = [pc_elf EXCEPT ![e] = "line_unlock"]
    /\ UNCHANGED << sem_set, elf_line_set, shared, pc_santa, pc_reindeer, santa_locals, status, hist >>

(* sem_signal(santa_sleep_mutex) *)
ElfWakeSanta(e) ==
    /\ Running
    /\ pc_elf[e] = "wake_santa"
    /\ sem_set' = SemSignal("santa_sleep_mutex")
    /\ pc_elf' = [pc_elf EXCEPT ![e] = "line_unlock"]
    /\ hist' = [hist EXCEPT !.elf_triggers = @ + 1]
    /\ UNCHANGED << elf_line_set, shared, pc_santa, pc_reindeer, santa_locals, status >>

(* }) : the end of CRITICAL(elf_mutex, ...) *)
ElfLineUnlock(e) ==
    /\ Running
    /\ pc_elf[e] = "line_unlock"
    /\ sem_set' = SemSignal("elf_mutex")
    /\ pc_elf' = [pc_elf EXCEPT ![e] = "in_line"]
    /\ UNCHANGED << elf_line_set, shared, pc_santa, pc_reindeer, santa_locals, status, hist >>

(* sem_wait_index(&elf_line_set, id) *)
ElfInLine(e) ==
    /\ Running
    /\ pc_elf[e] = "in_line"
    /\ sem_can_wait(elf_line_set[e])
    /\ elf_line_set' = [elf_line_set EXCEPT ![e] = sem_wait(@)]
    /\ pc_elf' = [pc_elf EXCEPT ![e] = "counter_lock"]
    /\ UNCHANGED << sem_set, shared, pc_santa, pc_reindeer, santa_locals, status, hist >>

(* get_help: CRITICAL(elf_counter_lock, { *)
ElfCounterLock(e) ==
    /\ Running
    /\ pc_elf[e] = "counter_lock"
    /\ sem_can_wait(sem_set.elf_counter_lock)
    /\ sem_set' = SemWait("elf_counter_lock")
    /\ pc_elf' = [pc_elf EXCEPT ![e] = "decrement"]
    /\ hist' = [hist EXCEPT !.helped[e] = @ + 1]
    /\ UNCHANGED << elf_line_set, shared, pc_santa, pc_reindeer, santa_locals, status >>

(* mutant: the test is if(num_elves_being_helped), without the negation *)
ElfDecrement_Inverted(e) ==
    /\ Running
    /\ pc_elf[e] = "decrement"
    /\ num_elves_being_helped' = num_elves_being_helped - 1
    /\ pc_elf' = [pc_elf EXCEPT ![e] =
                     IF num_elves_being_helped - 1 # 0
                     THEN "unlock_santa" ELSE "counter_unlock"]
    /\ UNCHANGED << sem_set, elf_line_set, num_reindeer_waiting, elves_waiting,
                    pc_santa, pc_reindeer, santa_locals, status, hist >>

(* mutant: every helped elf unlocks santa, not only the last *)
ElfDecrement_AlwaysUnlock(e) ==
    /\ Running
    /\ pc_elf[e] = "decrement"
    /\ num_elves_being_helped' = num_elves_being_helped - 1
    /\ pc_elf' = [pc_elf EXCEPT ![e] = "unlock_santa"]
    /\ UNCHANGED << sem_set, elf_line_set, num_reindeer_waiting, elves_waiting,
                    pc_santa, pc_reindeer, santa_locals, status, hist >>

(* --num_elves_being_helped; if(!num_elves_being_helped) *)
ElfDecrement(e) ==
    /\ Running
    /\ pc_elf[e] = "decrement"
    /\ num_elves_being_helped' = num_elves_being_helped - 1
    /\ pc_elf' = [pc_elf EXCEPT ![e] =
                     IF num_elves_being_helped - 1 = 0
                     THEN "unlock_santa" ELSE "counter_unlock"]
    /\ UNCHANGED << sem_set, elf_line_set, num_reindeer_waiting, elves_waiting,
                    pc_santa, pc_reindeer, santa_locals, status, hist >>

(* mutant: santa_busy_mutex is signalled once per elf of the group *)
ElfUnlockSanta_NTimes(e) ==
    /\ Running
    /\ pc_elf[e] = "unlock_santa"
    /\ sem_set' = [sem_set EXCEPT !.santa_busy_mutex =
                                      sem_signal_ntimes(@, NUM_ELVES_PER_GROUP)]
    /\ pc_elf' = [pc_elf EXCEPT ![e] = "return_credits"]
    /\ UNCHANGED << elf_line_set, shared, pc_santa, pc_reindeer, santa_locals, status, hist >>

(* sem_signal(santa_busy_mutex) *)
ElfUnlockSanta(e) ==
    /\ Running
    /\ pc_elf[e] = "unlock_santa"
    /\ sem_set' = SemSignal("santa_busy_mutex")
    /\ pc_elf' = [pc_elf EXCEPT ![e] = "return_credits"]
    /\ UNCHANGED << elf_line_set, shared, pc_santa, pc_reindeer, santa_locals, status, hist >>

(* mutant: one credit too many is returned *)
ElfReturnCredits_OneMore(e) ==
    /\ Running
    /\ pc_elf[e] = "return_credits"
    /\ sem_set' = [sem_set EXCEPT !.elf_counting_sem =
                                      sem_signal_ntimes(@, NUM_ELVES_PER_GROUP + 1)]
    /\ pc_elf' = [pc_elf EXCEPT ![e] = "counter_unlock"]
    /\ UNCHANGED << elf_line_set, shared, pc_santa, pc_reindeer, santa_locals, status, hist >>

(* sem_signal_ntimes(elf_counting_sem, NUM_ELVES_PER_GROUP) *)
ElfReturnCredits(e) ==
    /\ Running
    /\ pc_elf[e] = "return_credits"
    /\ sem_set' = [sem_set EXCEPT !.elf_counting_sem =
                                      sem_signal_ntimes(@, NUM_ELVES_PER_GROUP)]
    /\ pc_elf' = [pc_elf EXCEPT ![e] = "counter_unlock"]
    /\ UNCHANGED << elf_line_set, shared, pc_santa, pc_reindeer, santa_locals, status, hist >>

(* }) : the end of CRITICAL(elf_counter_lock, ...); get_help returns *)
ElfCounterUnlock(e) ==
    /\ Running
    /\ pc_elf[e] = "counter_unlock"
    /\ sem_set' = SemSignal("elf_counter_lock")
    /\ pc_elf' = [pc_elf EXCEPT ![e] = "work"]
    /\ hist' = [hist EXCEPT !.being_served = @ \ {e}, !.helped[e] = 0]
    /\ UNCHANGED << elf_line_set, shared, pc_santa, pc_reindeer, santa_locals, status >>

Elf(e) ==
    /\ \/ ElfWork(e) \/ ElfLineLock(e) \/ ElfInsert(e)
       \/ ElfWakeSanta(e) \/ ElfLineUnlock(e) \/ ElfInLine(e)
       \/ ElfCounterLock(e) \/ ElfDecrement(e) \/ ElfUnlockSanta(e)
       \/ ElfReturnCredits(e) \/ ElfCounterUnlock(e)
    /\ UNCHANGED teardown

(***************************************************************************)
(* Reindeer: reindeer() and get_hitched().                                 *)
(***************************************************************************)

(* random_wait; CRITICAL(reindeer_counter_lock, { *)
ReindeerVacation(r) ==
    /\ Running
    /\ pc_reindeer[r] = "vacation"
    /\ sem_can_wait(sem_set.reindeer_counter_lock)
    /\ sem_set' = SemWait("reindeer_counter_lock")
    /\ pc_reindeer' = [pc_reindeer EXCEPT ![r] = "increment"]
    /\ UNCHANGED << elf_line_set, shared, pc_santa, pc_elf, santa_locals, status, hist >>

(* mutant: the counter is incremented twice *)
ReindeerIncrement_Twice(r) ==
    /\ Running
    /\ pc_reindeer[r] = "increment"
    /\ num_reindeer_waiting' = num_reindeer_waiting + 2
    /\ sem_set' = SemSignal("reindeer_counter_lock")
    /\ pc_reindeer' = [pc_reindeer EXCEPT ![r] = "test_last"]
    /\ UNCHANGED << elf_line_set, num_elves_being_helped, elves_waiting,
                    pc_santa, pc_elf, santa_locals, status, hist >>

(* ++num_reindeer_waiting; }) *)
ReindeerIncrement(r) ==
    /\ Running
    /\ pc_reindeer[r] = "increment"
    /\ num_reindeer_waiting' = num_reindeer_waiting + 1
    /\ sem_set' = SemSignal("reindeer_counter_lock")
    /\ pc_reindeer' = [pc_reindeer EXCEPT ![r] = "test_last"]
    /\ UNCHANGED << elf_line_set, num_elves_being_helped, elves_waiting,
                    pc_santa, pc_elf, santa_locals, status, hist >>

(* mutant: a reindeer signals santa when one reindeer is still missing *)
ReindeerTestLast_Early(r) ==
    /\ Running
    /\ pc_reindeer[r] = "test_last"
    /\ pc_reindeer' = [pc_reindeer EXCEPT ![r] =
                          IF NUM_REINDEER - 1 <= num_reindeer_waiting
                          THEN "wake_santa" ELSE "wait_sleigh"]
    /\ UNCHANGED << sem_set, elf_line_set, shared, pc_santa, pc_elf, santa_locals, status, hist >>

(* if(NUM_REINDEER <= num_reindeer_waiting): read after the lock was released *)
ReindeerTestLast(r) ==
    /\ Running
    /\ pc_reindeer[r] = "test_last"
    /\ pc_reindeer' = [pc_reindeer EXCEPT ![r] =
                          IF NUM_REINDEER <= num_reindeer_waiting
                          THEN "wake_santa" ELSE "wait_sleigh"]
    /\ UNCHANGED << sem_set, elf_line_set, shared, pc_santa, pc_elf, santa_locals, status, hist >>

(* sem_signal(santa_sleep_mutex) *)
ReindeerWakeSanta(r) ==
    /\ Running
    /\ pc_reindeer[r] = "wake_santa"
    /\ sem_set' = SemSignal("santa_sleep_mutex")
    /\ pc_reindeer' = [pc_reindeer EXCEPT ![r] = "wait_sleigh"]
    /\ hist' = [hist EXCEPT !.reindeer_triggers = @ + 1]
    /\ UNCHANGED << elf_line_set, shared, pc_santa, pc_elf, santa_locals, status >>

(* mutant: a reindeer goes on to get hitched without waiting for the sleigh *)
ReindeerWaitSleigh_NoWait(r) ==
    /\ Running
    /\ pc_reindeer[r] = "wait_sleigh"
    /\ pc_reindeer' = [pc_reindeer EXCEPT ![r] = "hitch_lock"]
    /\ UNCHANGED << sem_set, elf_line_set, shared, pc_santa, pc_elf, santa_locals, status, hist >>

(* sem_wait(reindeer_counting_sem) *)
ReindeerWaitSleigh(r) ==
    /\ Running
    /\ pc_reindeer[r] = "wait_sleigh"
    /\ sem_can_wait(sem_set.reindeer_counting_sem)
    /\ sem_set' = SemWait("reindeer_counting_sem")
    /\ pc_reindeer' = [pc_reindeer EXCEPT ![r] = "hitch_lock"]
    /\ UNCHANGED << elf_line_set, shared, pc_santa, pc_elf, santa_locals, status, hist >>

(* CRITICAL(reindeer_counter_lock, { *)
ReindeerHitchLock(r) ==
    /\ Running
    /\ pc_reindeer[r] = "hitch_lock"
    /\ sem_can_wait(sem_set.reindeer_counter_lock)
    /\ sem_set' = SemWait("reindeer_counter_lock")
    /\ pc_reindeer' = [pc_reindeer EXCEPT ![r] = "hitch"]
    /\ UNCHANGED << elf_line_set, shared, pc_santa, pc_elf, santa_locals, status, hist >>

(* mutant: a reindeer that is not the last returns without releasing the lock *)
ReindeerHitch_NoUnlock(r) ==
    /\ Running
    /\ pc_reindeer[r] = "hitch"
    /\ num_reindeer_waiting' = num_reindeer_waiting - 1
    /\ IF 0 = num_reindeer_waiting - 1
       THEN /\ exit("success")
            /\ pc_reindeer' = [pc_reindeer EXCEPT ![r] = "exit"]
            /\ hist' = [hist EXCEPT !.hitched[r] = @ + 1, !.free_calls = @ + 1]
       ELSE /\ pc_reindeer' = [pc_reindeer EXCEPT ![r] = "done"]
            /\ hist' = [hist EXCEPT !.hitched[r] = @ + 1]
            /\ UNCHANGED << status, teardown >>
    /\ UNCHANGED << sem_set, elf_line_set, num_elves_being_helped, elves_waiting,
                    pc_santa, pc_elf, santa_locals >>

(* get_hitched(id); --num_reindeer_waiting; if(0 == ...) exit(EXIT_SUCCESS); *)
(* otherwise }) and return NULL.  exit runs the at-exit handler.            *)
ReindeerHitch(r) ==
    /\ Running
    /\ pc_reindeer[r] = "hitch"
    /\ num_reindeer_waiting' = num_reindeer_waiting - 1
    /\ IF 0 = num_reindeer_waiting - 1
       THEN /\ exit("success")
            /\ pc_reindeer' = [pc_reindeer EXCEPT ![r] = "exit"]
            /\ hist' = [hist EXCEPT !.hitched[r] = @ + 1, !.free_calls = @ + 1]
            /\ UNCHANGED sem_set
       ELSE /\ sem_set' = SemSignal("reindeer_counter_lock")
            /\ pc_reindeer' = [pc_reindeer EXCEPT ![r] = "done"]
            /\ hist' = [hist EXCEPT !.hitched[r] = @ + 1]
            /\ UNCHANGED << status, teardown >>
    /\ UNCHANGED << elf_line_set, num_elves_being_helped, elves_waiting,
                    pc_santa, pc_elf, santa_locals >>

ReindeerThread(r) ==
    \/ /\ \/ ReindeerVacation(r) \/ ReindeerIncrement(r)
          \/ ReindeerTestLast(r) \/ ReindeerWakeSanta(r) \/ ReindeerWaitSleigh(r)
          \/ ReindeerHitchLock(r)
       /\ UNCHANGED teardown
    \/ ReindeerHitch(r)

Next ==
    \/ Santa
    \/ \E e \in Elves : Elf(e)
    \/ \E r \in Reindeer : ReindeerThread(r)

Spec == Init /\ [][Next]_vars

(* every thread is scheduled: each delay is finite *)
FairSpec ==
    /\ Spec
    /\ WF_vars(Santa)
    /\ \A e \in Elves : WF_vars(Elf(e))
    /\ \A r \in Reindeer : WF_vars(ReindeerThread(r))

(* santa and the elves are scheduled; a reindeer may stay away for ever *)
ElfFairSpec ==
    /\ Spec
    /\ WF_vars(Santa)
    /\ \A e \in Elves : WF_vars(Elf(e))

(***************************************************************************)
(* SIGINT.  main installs sigint_handler, which calls exit(EXIT_SUCCESS):  *)
(* the at-exit handler runs in whatever state the threads are.  A SIGINT   *)
(* that arrives when exit has already been called calls exit once more;    *)
(* the behaviour of a second exit is undefined, and one of its outcomes is *)
(* that the at-exit handler is invoked again (the other, that it is not,   *)
(* is a stuttering step).  Whatever the number of such invocations, the    *)
(* program is in the state the first of them leaves.                       *)
(***************************************************************************)
protocol == << sem_set, elf_line_set, shared, pc_santa, pc_elf, pc_reindeer, santa_locals >>

(* mutant: the handler ends the process without the at-exit handler (_exit) *)
Sigint_NoTeardown ==
    /\ Running
    /\ status' = "sigint"
    /\ UNCHANGED << protocol, teardown, hist >>

Sigint ==
    /\ Running
    /\ exit("sigint")
    /\ hist' = [hist EXCEPT !.free_calls = @ + 1]
    /\ UNCHANGED protocol

SigintAgain ==
    /\ ~ Running
    /\ free_resources
    /\ hist' = [hist EXCEPT !.free_again = TRUE]
    /\ UNCHANGED << protocol, status >>

(* the run with an operator who may interrupt it, more than once *)
NextOrSigint == Next \/ Sigint \/ SigintAgain

TeardownSpec == Init /\ [][NextOrSigint]_vars

(***************************************************************************)
(* Where the threads are.                                                  *)
(***************************************************************************)
SantaHelpPcs == {"help_lock", "counter_lock", "counter_set", "line_lock",
                 "take", "signal_elf", "line_unlock"}
SantaSleighPcs == {"sleigh_lock", "sleigh_signal", "deliver_busy", "deliver_sleep"}
SantaBatchPcs == {"fix_counter"} \cup SantaSleighPcs
ElfGetHelpPcs == {"counter_lock", "decrement", "unlock_santa",
                  "return_credits", "counter_unlock"}
ReindeerCreditPcs == {"hitch_lock", "hitch", "done", "exit"}

(***************************************************************************)
(* Who holds which lock.  A thread holds a lock from its sem_wait on it    *)
(* until the matching sem_signal; the sets below are the positions between *)
(* the two.  santa_busy_mutex is taken by santa in help_elves and given    *)
(* back by the last helped elf in get_help, which can happen as soon as    *)
(* santa has signalled the third elf: after that signal santa holds it     *)
(* for as long as the service window is open.                              *)
(***************************************************************************)
Locks == {"santa_busy_mutex", "reindeer_counter_lock", "elf_counter_lock", "elf_mutex"}
DataLocks == Locks \ {"santa_busy_mutex"}

Threads == {<< "santa", 0 >>}
             \cup {<< "elf", e >> : e \in Elves}
             \cup {<< "reindeer", r >> : r \in Reindeer}

(* help_elves has set the counter and the last elf has not yet released santa *)
ServiceWindowOpen ==
    \/ num_elves_being_helped > 0
    \/ \E e \in Elves : pc_elf[e] = "unlock_santa"

SantaHolds(lock) ==
    CASE lock = "santa_busy_mutex" ->
            \/ pc_santa \in {"zzz_unlock", "sleigh_signal", "deliver_busy", "deliver_sleep"}
            \/ pc_santa \in {"counter_lock", "counter_set", "line_lock", "take", "signal_elf"}
            \/ pc_santa \in {"line_unlock", "zzz_lock"} /\ ServiceWindowOpen
      [] lock = "elf_counter_lock" -> pc_santa = "counter_set"
      [] lock = "elf_mutex" -> pc_santa \in {"take", "signal_elf", "line_unlock"}
      [] lock = "reindeer_counter_lock" -> FALSE

SantaWaitsFor(lock) ==
    CASE lock = "santa_busy_mutex" ->
            pc_santa \in {"zzz_lock", "sleigh_lock", "deliver_busy", "help_lock"}
      [] lock = "elf_counter_lock" -> pc_santa = "counter_lock"
      [] lock = "elf_mutex" -> pc_santa = "line_lock"
      [] lock = "reindeer_counter_lock" -> FALSE

ElfHolds(e, lock) ==
    CASE lock = "elf_mutex" -> pc_elf[e] \in {"insert", "wake_santa", "line_unlock"}
      [] lock = "elf_counter_lock" ->
            pc_elf[e] \in {"decrement", "unlock_santa", "return_credits", "counter_unlock"}
      [] OTHER -> FALSE

ElfWaitsFor(e, lock) ==
    CASE lock = "elf_mutex" -> pc_elf[e] = "line_lock"
      [] lock = "elf_counter_lock" -> pc_elf[e] = "counter_lock"
      [] OTHER -> FALSE

ReindeerHolds(r, lock) ==
    /\ lock = "reindeer_counter_lock"
    /\ pc_reindeer[r] \in {"increment", "hitch", "exit"}

ReindeerWaitsFor(r, lock) ==
    /\ lock = "reindeer_counter_lock"
    /\ pc_reindeer[r] \in {"vacation", "hitch_lock"}

Holds(t, lock) ==
    CASE t[1] = "santa" -> SantaHolds(lock)
      [] t[1] = "elf" -> ElfHolds(t[2], lock)
      [] t[1] = "reindeer" -> ReindeerHolds(t[2], lock)

WaitsFor(t, lock) ==
    CASE t[1] = "santa" -> SantaWaitsFor(lock)
      [] t[1] = "elf" -> ElfWaitsFor(t[2], lock)
      [] t[1] = "reindeer" -> ReindeerWaitsFor(t[2], lock)

Holders(lock) == {t \in Threads : Holds(t, lock)}
HeldBy(t) == {lock \in Locks : Holds(t, lock)}

K == NUM_ELVES_PER_GROUP
N == NUM_REINDEER

(***************************************************************************)
(* C1. Deadlock freedom: in every reachable state before the exit some     *)
(* thread can take a step; the threads are never all blocked on            *)
(* semaphores.                                                             *)
(***************************************************************************)
C1_DeadlockFree == Running => ENABLED Next

(* santa is locked for good and no elf can move: only reindeer still run *)
C1_Witness ==
    /\ Running
    /\ pc_santa = "deliver_busy"
    /\ ~ ENABLED Santa
    /\ \A e \in Elves : ~ ENABLED Elf(e)
    /\ \E r \in Reindeer : ENABLED ReindeerThread(r)

(***************************************************************************)
(* C2. Termination: when every thread is scheduled fairly, the run reaches *)
(* the exit(EXIT_SUCCESS) of the reindeer whose decrement brings           *)
(* num_reindeer_waiting to 0.                                              *)
(***************************************************************************)
C2_Terminates ==
    <>(status = "success" /\ num_reindeer_waiting = 0
         /\ \E r \in Reindeer : pc_reindeer[r] = "exit")

C2_Witness == status = "success" /\ num_reindeer_waiting = 0

(***************************************************************************)
(* C3. Threshold exactness, as the claim states it: the waiting set holds  *)
(* at least K members at every call of set_take, and when the removals of  *)
(* a help_elves are over exactly K distinct elves were removed and         *)
(* signalled and the cardinality is the one before minus K.                *)
(***************************************************************************)
C3_AsClaimed ==
    /\ pc_santa = "take" => set_cardinality(elves_waiting) >= K
    /\ pc_santa = "line_unlock" =>
          /\ Cardinality(hist.taken) = K
          /\ hist.signalled = hist.taken
          /\ set_cardinality(elves_waiting) = hist.card_before - K

(***************************************************************************)
(* C3, amended. The waiting set holds at least K members when the          *)
(* removals of a help_elves start and at least K - j members at the call   *)
(* of set_take that follows j removals, so set_take never meets an empty   *)
(* set; when the removals are over exactly K distinct elves were removed   *)
(* and signalled, one signal each, and the cardinality is the one before   *)
(* minus K.                                                                *)
(***************************************************************************)
C3_ExactlyK ==
    /\ status # "failure"
    /\ \A e \in Elves : elf_line_set[e] \in {0, 1}
    /\ pc_santa \in {"take", "signal_elf", "line_unlock"} =>
          /\ hist.card_before >= K
          /\ hist.taken \cap elves_waiting = {}
          /\ set_cardinality(elves_waiting) = hist.card_before - Cardinality(hist.taken)
    /\ pc_santa = "take" =>
          /\ i < K
          /\ Cardinality(hist.taken) = i
          /\ hist.signalled = hist.taken
          /\ set_cardinality(elves_waiting) >= K - i
    /\ pc_santa = "signal_elf" =>
          /\ Cardinality(hist.taken) = i + 1
          /\ hist.taken = hist.signalled \cup {elf}
          /\ elf \notin hist.signalled
    /\ pc_santa = "line_unlock" =>
          /\ i = K
          /\ Cardinality(hist.taken) = K
          /\ hist.signalled = hist.taken
          /\ set_cardinality(elves_waiting) = hist.card_before - K

(* the removals of a help_elves are over: three elves removed and signalled *)
C3_Witness ==
    /\ pc_santa = "line_unlock"
    /\ Cardinality(hist.taken) = K
    /\ hist.signalled = hist.taken

(***************************************************************************)
(* C4. Batch exactness, release: prepare_sleigh runs at most once, santa   *)
(* releases exactly N credits on reindeer_counting_sem or none yet, every  *)
(* reindeer past its sem_wait has consumed one of them, the value of the   *)
(* semaphore stays in 0..N, and at the exit all N credits are consumed.    *)
(***************************************************************************)
C4_BatchRelease ==
    /\ hist.sleigh_calls \in {0, 1}
    /\ hist.credits \in {0, N}
    /\ hist.credits = N => hist.sleigh_calls = 1
    /\ sem_set.reindeer_counting_sem \in 0 .. N
    /\ sem_set.reindeer_counting_sem
         + Cardinality({r \in Reindeer : pc_reindeer[r] \in ReindeerCreditPcs})
         = hist.credits
    /\ status = "success" =>
          /\ hist.credits = N
          /\ sem_set.reindeer_counting_sem = 0

(* the sleigh is prepared and one reindeer has consumed its credit *)
C4_Witness ==
    /\ hist.credits = N
    /\ sem_set.reindeer_counting_sem = N - 1
    /\ \E r \in Reindeer : pc_reindeer[r] = "hitch_lock"

(***************************************************************************)
(* C5. Batch exactness, departure: exit(EXIT_SUCCESS) is executed by one   *)
(* reindeer only, when all N reindeer have been hitched exactly once and   *)
(* num_reindeer_waiting is 0; no reindeer is hitched twice.                *)
(***************************************************************************)
C5_BatchDeparture ==
    /\ \A r \in Reindeer : hist.hitched[r] \in {0, 1}
    /\ \A r \in Reindeer : pc_reindeer[r] = "exit" <=>
                             (status = "success" /\ \A q \in Reindeer \ {r} : pc_reindeer[q] = "done")
    /\ status = "success" =>
          /\ num_reindeer_waiting = 0
          /\ \A r \in Reindeer : hist.hitched[r] = 1
          /\ Cardinality({r \in Reindeer : pc_reindeer[r] = "exit"}) = 1

(* the last reindeer has left: every reindeer was hitched once *)
C5_Witness ==
    /\ \E r \in Reindeer : pc_reindeer[r] = "exit"
    /\ \A q \in Reindeer : hist.hitched[q] = 1

(***************************************************************************)
(* C6. Mutual exclusion of the activities, as the claim states it: santa   *)
(* never executes prepare_sleigh (nor anything that follows it) while an   *)
(* elf he selected has not yet finished get_help.                          *)
(***************************************************************************)
C6_AsClaimed == ~ (pc_santa \in SantaSleighPcs /\ hist.being_served # {})

(***************************************************************************)
(* C6, amended. The service window ends when the last of its K elves       *)
(* releases santa_busy_mutex: while santa executes prepare_sleigh or what  *)
(* follows it, every selected elf has decremented num_elves_being_helped   *)
(* and the gate was released; at most the last elf is still in get_help,   *)
(* in the statements after its sem_signal(santa_busy_mutex).               *)
(***************************************************************************)
C6_GateExclusion ==
    pc_santa \in SantaSleighPcs =>
       /\ num_elves_being_helped = 0
       /\ Cardinality(hist.being_served) <= 1
       /\ \A e \in hist.being_served : pc_elf[e] \in {"return_credits", "counter_unlock"}

(* santa prepares the sleigh while the last helped elf returns the credits *)
C6_Witness ==
    /\ pc_santa \in SantaSleighPcs
    /\ \E e \in hist.being_served : pc_elf[e] = "return_credits"

(***************************************************************************)
(* C7. Priority: when santa wakes from santa_sleep_mutex with both         *)
(* num_reindeer_waiting >= N and K elves waiting, he goes on to            *)
(* prepare_sleigh and does not enter help_elves in that cycle.             *)
(***************************************************************************)
C7_Priority ==
    hist.wake_both => pc_santa \in {"test_reindeer"} \cup SantaBatchPcs

(* santa woke with both thresholds met and is preparing the sleigh *)
C7_Witness ==
    /\ hist.wake_both
    /\ pc_santa = "sleigh_signal"
    /\ set_cardinality(elves_waiting) >= K

(***************************************************************************)
(* C8. No lost wakeup, the part of the claim about the end of the run: no  *)
(* elf that joined the line is still blocked on its own semaphore when     *)
(* the run terminates.                                                     *)
(***************************************************************************)
C8_AsClaimed ==
    status = "success" =>
       \A e \in Elves : ~ (pc_elf[e] = "in_line" /\ elf_line_set[e] = 0)

(***************************************************************************)
(* C8, amended. An elf that inserted itself into the waiting set is        *)
(* eventually helped (it gets through get_help), once for that insertion,  *)
(* unless santa takes the reindeer path first; this needs santa and the    *)
(* elves to be scheduled, not the reindeer.  An elf in line when santa     *)
(* takes the reindeer path may stay blocked until the exit.                *)
(***************************************************************************)
C8_Serviced ==
    /\ \A e \in Elves :
          (e \in elves_waiting) ~>
             (pc_elf[e] = "counter_unlock" \/ pc_santa \in SantaBatchPcs)
    /\ [](\A e \in Elves :
            /\ hist.helped[e] \in {0, 1}
            /\ e \in elves_waiting => hist.helped[e] = 0
            /\ pc_elf[e] \in (ElfGetHelpPcs \ {"counter_lock"}) => hist.helped[e] = 1)

(* an elf is through get_help, helped once, and santa is not with the reindeer *)
C8_Witness ==
    /\ \E e \in Elves : pc_elf[e] = "counter_unlock" /\ hist.helped[e] = 1
    /\ pc_santa \notin SantaBatchPcs

(***************************************************************************)
(* C9. Elf trigger exactness: an elf signals santa_sleep_mutex only in the *)
(* insertion that brings the waiting set to exactly K members, one elf per *)
(* group, and at most one trigger of the elves is pending or being handled *)
(* at any time.                                                            *)
(***************************************************************************)
C9_ElfTrigger ==
    /\ hist.elf_triggers \in {0, 1}
    /\ Cardinality({e \in Elves : pc_elf[e] = "wake_santa"}) + hist.elf_triggers <= 1
    /\ \A e \in Elves : pc_elf[e] = "wake_santa" =>
          /\ e \in elves_waiting
          /\ set_cardinality(elves_waiting) = K
    /\ set_cardinality(elves_waiting) = K =>
          \/ hist.elf_triggers = 1
          \/ \E e \in Elves : pc_elf[e] = "wake_santa"
    /\ pc_santa \in SantaHelpPcs => hist.elf_triggers = 1
    /\ (set_cardinality(elves_waiting) < K /\ pc_santa \notin SantaHelpPcs) =>
          hist.elf_triggers = 0

(* the third elf has signalled and santa is still asleep *)
C9_Witness ==
    /\ hist.elf_triggers = 1
    /\ pc_santa = "sleep"
    /\ set_cardinality(elves_waiting) = K

(***************************************************************************)
(* C10. One trigger from the reindeer: over a run at most one reindeer,    *)
(* the one whose increment brings num_reindeer_waiting to N, signals       *)
(* santa_sleep_mutex.                                                      *)
(***************************************************************************)
C10_OneTrigger ==
    hist.reindeer_triggers
      + Cardinality({r \in Reindeer : pc_reindeer[r] = "wake_santa"}) <= 1

(***************************************************************************)
(* C11. No nested lock acquisition, as the claim states it: no thread      *)
(* holds more than one of santa_busy_mutex, reindeer_counter_lock,         *)
(* elf_counter_lock and elf_mutex at the same time, and no thread waits    *)
(* for one of them while it holds another.                                 *)
(***************************************************************************)
C11_AsClaimed ==
    \A t \in Threads :
       /\ Cardinality(HeldBy(t)) <= 1
       /\ \A lock \in Locks : WaitsFor(t, lock) => HeldBy(t) \subseteq {lock}

(***************************************************************************)
(* C11, amended. Every lock has at most one holder.  No elf and no         *)
(* reindeer holds more than one of the four locks or waits for one while   *)
(* it holds another.  Santa does nest: in help_elves he holds              *)
(* santa_busy_mutex while he takes elf_counter_lock and then elf_mutex,    *)
(* and santa_busy_mutex is the only lock he holds when he waits for one of *)
(* the two; of the three data locks he never holds two, and never waits    *)
(* for one while he holds another.                                         *)
(***************************************************************************)
C11_GateOutermost ==
    [](/\ \A lock \in Locks :
             LET holders == Holders(lock)
             IN  /\ sem_set[lock] = 1 - Cardinality(holders)
                 /\ \A t \in holders : \A other \in Locks \ {lock} :
                       /\ Holds(t, other) =>
                             (t = << "santa", 0 >> /\ "santa_busy_mutex" \in {lock, other})
                       /\ WaitsFor(t, other) =>
                             (t = << "santa", 0 >> /\ lock = "santa_busy_mutex")
       /\ \A lock \in DataLocks : SantaWaitsFor(lock) => SantaHolds("santa_busy_mutex"))

(* santa holds santa_busy_mutex and elf_counter_lock together *)
C11_Witness ==
    /\ pc_santa = "counter_set"
    /\ sem_set.santa_busy_mutex = 0
    /\ sem_set.elf_counter_lock = 0
    /\ HeldBy(<< "santa", 0 >>) = {"santa_busy_mutex", "elf_counter_lock"}

(***************************************************************************)
(* The threads about to write a shared variable, and the guard of each     *)
(* variable.                                                               *)
(***************************************************************************)
Writers(variable) ==
    CASE variable = "num_reindeer_waiting" ->
            {<< "reindeer", r >> : r \in {q \in Reindeer : pc_reindeer[q] \in {"increment", "hitch"}}}
              \cup (IF pc_santa = "fix_counter" THEN {<< "santa", 0 >>} ELSE {})
      [] variable = "num_elves_being_helped" ->
            {<< "elf", e >> : e \in {f \in Elves : pc_elf[f] = "decrement"}}
              \cup (IF pc_santa = "counter_set" THEN {<< "santa", 0 >>} ELSE {})
      [] variable = "elves_waiting" ->
            {<< "elf", e >> : e \in {f \in Elves : pc_elf[f] = "insert"}}
              \cup (IF pc_santa = "take" THEN {<< "santa", 0 >>} ELSE {})

Guarded == {"num_reindeer_waiting", "num_elves_being_helped", "elves_waiting"}

GuardOf(variable) ==
    CASE variable = "num_reindeer_waiting" -> "reindeer_counter_lock"
      [] variable = "num_elves_being_helped" -> "elf_counter_lock"
      [] variable = "elves_waiting" -> "elf_mutex"

(***************************************************************************)
(* C12. Guarded mutation, as the claim states it: every thread that writes *)
(* num_reindeer_waiting, num_elves_being_helped or the waiting set holds   *)
(* the guard of what it writes, santa included.                            *)
(***************************************************************************)
C12_AsClaimed ==
    \A variable \in Guarded : \A t \in Writers(variable) :
       /\ Holds(t, GuardOf(variable))
       /\ sem_set[GuardOf(variable)] = 0

(***************************************************************************)
(* C13. Idempotent teardown: once free_resources has run, another          *)
(* invocation changes nothing: resources_freed stays 1 and neither         *)
(* semaphore set nor the waiting set is released again, so each of them is *)
(* released exactly once.                                                  *)
(***************************************************************************)
C13_IdempotentTeardown ==
    /\ [][hist.free_calls >= 1 => UNCHANGED << teardown, protocol, status >>]_vars
    /\ [](hist.free_calls >= 1 =>
            /\ resources_freed = 1
            /\ \A res \in Resources : freed[res] = 1)

(* free_resources was invoked twice and everything was released once *)
C13_Witness ==
    /\ hist.free_calls = 1
    /\ hist.free_again
    /\ resources_freed = 1
    /\ \A res \in Resources : freed[res] = 1

(***************************************************************************)
(* C14. Single teardown path: a SIGINT can arrive in every state of the    *)
(* protocol, whatever santa, the elves and the reindeer are doing; it and  *)
(* the exit of the last reindeer end the process through the same          *)
(* free_resources, whose body has run exactly once when the process has    *)
(* ended and not at all before.                                            *)
(***************************************************************************)
C14_SingleTeardown ==
    /\ Running =>
          /\ ENABLED Sigint
          /\ resources_freed = 0
          /\ \A res \in Resources : freed[res] = 0
    /\ status \in {"success", "sigint"} =>
          /\ resources_freed = 1
          /\ \A res \in Resources : freed[res] = 1
    /\ status \in {"running", "success", "sigint"}

(* interrupted while santa helps elves and a reindeer is away: torn down once *)
C14_Witness ==
    /\ status = "sigint"
    /\ \A res \in Resources : freed[res] = 1
    /\ pc_santa \in SantaHelpPcs
    /\ \E e \in Elves : pc_elf[e] = "in_line"
    /\ \E r \in Reindeer : pc_reindeer[r] = "vacation"

(***************************************************************************)
(* The activities of santa.  A service window runs from the                *)
(* sem_wait(santa_busy_mutex) of help_elves to the                         *)
(* sem_signal(santa_busy_mutex) of the last helped elf; the preparation of *)
(* the sleigh runs from the sem_wait(santa_busy_mutex) of prepare_sleigh   *)
(* to the end of the run.                                                  *)
(***************************************************************************)
ServiceWindowInProgress ==
    \/ pc_santa \in {"counter_lock", "counter_set", "line_lock", "take", "signal_elf"}
    \/ ServiceWindowOpen

BatchInProgress == pc_santa \in {"sleigh_signal", "deliver_busy", "deliver_sleep"}

(***************************************************************************)
(* C15. Holding discipline of santa_busy_mutex, as the claim states it:    *)
(* its value is 0 in exactly the states where a service window or the      *)
(* preparation of the sleigh is in progress or santa is asleep (from the   *)
(* moment he announces it until santa_sleep_mutex wakes him).              *)
(***************************************************************************)
C15_AsClaimed ==
    sem_set.santa_busy_mutex = 0 <=>
       (ServiceWindowInProgress \/ BatchInProgress \/ pc_santa \in {"zzz_unlock", "sleep"})

(***************************************************************************)
(* C15, amended. santa_busy_mutex is 0 in exactly the states where santa   *)
(* is inside the CRITICAL at the top of his loop (he announces that he     *)
(* sleeps), a service window is in progress, or the preparation of the     *)
(* sleigh has begun; it is 1 in every other state: while santa is asleep,  *)
(* blocked on santa_sleep_mutex, and while he tests the two thresholds.    *)
(***************************************************************************)
C15_GateDiscipline ==
    /\ sem_set.santa_busy_mutex = 0 <=>
          (pc_santa = "zzz_unlock" \/ ServiceWindowInProgress \/ BatchInProgress)
    /\ pc_santa \in {"sleep", "test_reindeer", "test_elves", "fix_counter",
                     "sleigh_lock", "help_lock"} => sem_set.santa_busy_mutex = 1

(* santa is asleep on santa_sleep_mutex and santa_busy_mutex is free *)
C15_Witness ==
    /\ pc_santa = "sleep"
    /\ sem_set.santa_sleep_mutex = 0
    /\ sem_set.santa_busy_mutex = 1

(***************************************************************************)
(* C16. santa_busy_mutex is binary: its value is always 0 or 1, and it is  *)
(* 0 whenever a thread is about to signal it (santa at the end of the      *)
(* CRITICAL at the top of his loop, the last helped elf in get_help); at   *)
(* most one thread is about to signal it, and it has at most one holder.   *)
(* Every step that changes it takes it from 1 to 0 or from 0 to 1.         *)
(***************************************************************************)
C16_GateBinary ==
    /\ [](/\ sem_set.santa_busy_mutex \in {0, 1}
          /\ pc_santa = "zzz_unlock" => sem_set.santa_busy_mutex = 0
          /\ \A e \in Elves : pc_elf[e] = "unlock_santa" => sem_set.santa_busy_mutex = 0
          /\ Cardinality({e \in Elves : pc_elf[e] = "unlock_santa"})
               + (IF pc_santa = "zzz_unlock" THEN 1 ELSE 0) <= 1
          /\ Cardinality(Holders("santa_busy_mutex")) <= 1)
    /\ [][/\ sem_set'.santa_busy_mutex > sem_set.santa_busy_mutex =>
                (sem_set.santa_busy_mutex = 0 /\ sem_set'.santa_busy_mutex = 1)
          /\ sem_set'.santa_busy_mutex < sem_set.santa_busy_mutex =>
                (sem_set.santa_busy_mutex = 1 /\ sem_set'.santa_busy_mutex = 0)]_vars

(* the last helped elf has released santa, who waits at the top of his loop *)
C16_Witness ==
    /\ \E e \in Elves : pc_elf[e] = "return_credits"
    /\ pc_santa = "zzz_lock"
    /\ sem_set.santa_busy_mutex = 1

(* the elves santa took out of the set that have not yet decremented *)
NotYetDecremented ==
    {e \in hist.being_served : pc_elf[e] \in {"in_line", "counter_lock", "decrement"}}

(***************************************************************************)
(* C17. Range of num_elves_being_helped: it is always in 0..K; santa sets  *)
(* it to K only when it is 0; it is at least 1 when an elf decrements it,  *)
(* so it never goes negative; it counts the elves of the group that have   *)
(* not yet decremented it (each selected elf decrements once); and it is   *)
(* non-zero only while a service window is in progress.  Every step that   *)
(* changes it takes it from 0 to K or down by one.                         *)
(***************************************************************************)
C17_HelpCounterRange ==
    /\ [](/\ num_elves_being_helped \in 0 .. K
          /\ pc_santa = "counter_set" => num_elves_being_helped = 0
          /\ \A e \in Elves : pc_elf[e] = "decrement" =>
                /\ num_elves_being_helped >= 1
                /\ hist.helped[e] = 1
          /\ num_elves_being_helped > 0 =>
                /\ ServiceWindowInProgress
                /\ sem_set.santa_busy_mutex = 0
                /\ pc_santa \in {"line_lock", "take", "signal_elf", "line_unlock", "zzz_lock"}
          /\ num_elves_being_helped =
                (IF pc_santa \in {"line_lock", "take", "signal_elf", "line_unlock"}
                 THEN K - Cardinality(hist.taken) ELSE 0)
                + Cardinality(NotYetDecremented))
    /\ [][num_elves_being_helped' # num_elves_being_helped =>
             \/ num_elves_being_helped = 0 /\ num_elves_being_helped' = K
             \/ num_elves_being_helped' = num_elves_being_helped - 1]_vars

(* two elves of the group have decremented, the last one is about to *)
C17_Witness ==
    /\ num_elves_being_helped = 1
    /\ pc_santa = "zzz_lock"
    /\ \E e \in Elves : pc_elf[e] = "decrement"

(***************************************************************************)
(* C18. Range of num_reindeer_waiting: it is always in 0..N.  Until santa  *)
(* releases the batch it only rises, one by one, and counts the reindeer   *)
(* that are back; it is N when the batch is released; from then on it only *)
(* falls, one by one, and counts the reindeer not yet hitched: there is no *)
(* increment after the first decrement.                                    *)
(***************************************************************************)
C18_TransportCounterRange ==
    /\ [](/\ num_reindeer_waiting \in 0 .. N
          /\ pc_santa = "sleigh_signal" => num_reindeer_waiting = N
          /\ hist.credits = 0 =>
                num_reindeer_waiting =
                   Cardinality({r \in Reindeer :
                                  pc_reindeer[r] \in {"test_last", "wake_santa", "wait_sleigh"}})
          /\ hist.credits = N =>
                /\ \A r \in Reindeer : pc_reindeer[r] \notin {"vacation", "increment"}
                /\ num_reindeer_waiting =
                      N - Cardinality({r \in Reindeer : pc_reindeer[r] \in {"done", "exit"}}))
    /\ [][/\ num_reindeer_waiting' > num_reindeer_waiting =>
                /\ num_reindeer_waiting' = num_reindeer_waiting + 1
                /\ hist.credits = 0
          /\ num_reindeer_waiting' < num_reindeer_waiting =>
                /\ num_reindeer_waiting' = num_reindeer_waiting - 1
                /\ hist.credits = N]_vars

(* the batch was released and the first reindeer is hitched: the counter falls *)
C18_Witness ==
    /\ hist.credits = N
    /\ num_reindeer_waiting = N - 1
    /\ \E r \in Reindeer : pc_reindeer[r] = "done"

(***************************************************************************)
(* The credits of elf_counting_sem.  An elf holds a credit from its        *)
(* sem_wait(elf_counting_sem); the credits of a group come back together,  *)
(* K at a time, from the last helped elf.                                  *)
(***************************************************************************)
(* the elves that hold a credit and were not yet taken out of the set *)
Forming ==
    {e \in Elves : \/ pc_elf[e] \in {"line_lock", "insert", "wake_santa", "line_unlock"}
                   \/ e \in elves_waiting}

(* santa is in the loop of help_elves, or about to enter it *)
SantaTaking == pc_santa \in {"line_lock", "take", "signal_elf"}

(* the credits held by the elves that santa took out of the set *)
CreditsOfTaken ==
    IF SantaTaking
    THEN Cardinality(hist.taken)
    ELSE IF ServiceWindowOpen \/ \E e \in Elves : pc_elf[e] = "return_credits"
         THEN K ELSE 0

(***************************************************************************)
(* C19. Admission gate, as the claim states it: the waiting set never      *)
(* holds more than K elves, elf_counting_sem stays in 0..K, and no elf     *)
(* passes sem_wait(elf_counting_sem) for a new group while an elf of the   *)
(* previous group has not finished get_help.                               *)
(***************************************************************************)
C19_AsClaimed ==
    /\ set_cardinality(elves_waiting) <= K
    /\ sem_set.elf_counting_sem \in 0 .. K
    /\ (~ SantaTaking /\ hist.being_served # {}) => Forming = {}

(***************************************************************************)
(* C19, amended. The waiting set never holds more than K elves and         *)
(* elf_counting_sem stays in 0..K: its value, the elves that hold a credit *)
(* and are not yet taken, and the credits of the group santa has taken add *)
(* up to K.  No elf passes sem_wait(elf_counting_sem) for a new group      *)
(* until all K elves of the previous group have decremented                *)
(* num_elves_being_helped and the K credits were returned; the elf that    *)
(* returned them may still be at the end of get_help, about to release     *)
(* elf_counter_lock.  Every step that changes elf_counting_sem takes one   *)
(* credit or returns K credits to the value 0.                             *)
(***************************************************************************)
C19_AdmissionGate ==
    /\ [](/\ set_cardinality(elves_waiting) <= K
          /\ sem_set.elf_counting_sem \in 0 .. K
          /\ sem_set.elf_counting_sem + Cardinality(Forming) + CreditsOfTaken = K
          /\ (~ SantaTaking /\ Forming # {}) =>
                /\ num_elves_being_helped = 0
                /\ Cardinality(hist.being_served) <= 1
                /\ \A e \in hist.being_served : pc_elf[e] = "counter_unlock")
    /\ [][sem_set'.elf_counting_sem # sem_set.elf_counting_sem =>
             \/ sem_set'.elf_counting_sem = sem_set.elf_counting_sem - 1
             \/ sem_set.elf_counting_sem = 0 /\ sem_set'.elf_counting_sem = K]_vars

(* an elf joins the next group while the last helped elf ends get_help *)
C19_Witness ==
    /\ \E e \in hist.being_served : pc_elf[e] = "counter_unlock"
    /\ \E e \in Elves \ hist.being_served : pc_elf[e] = "line_lock"
    /\ sem_set.elf_counting_sem = K - 1

(* the elf that found the counter at 0 and has not yet returned the credits *)
Closing == {e \in Elves : pc_elf[e] \in {"unlock_santa", "return_credits"}}

(***************************************************************************)
(* C20. Service-window completion: in each window one elf only, the one    *)
(* whose decrement brings num_elves_being_helped to 0, signals             *)
(* santa_busy_mutex and returns credits, exactly K of them; when it does,  *)
(* santa has signalled all K selected elves and the other K - 1 are        *)
(* through get_help.  While the window is open santa is in help_elves or   *)
(* blocked at the top of his loop, so he starts no other window: windows   *)
(* never overlap.                                                          *)
(***************************************************************************)
C20_WindowCompletion ==
    /\ [](/\ Cardinality(Closing) <= 1
          /\ \A e \in Closing :
                /\ num_elves_being_helped = 0
                /\ hist.being_served = {e}
                /\ hist.helped[e] = 1
                /\ sem_set.elf_counting_sem = 0
                /\ pc_elf[e] = "unlock_santa" =>
                      /\ pc_santa \in {"line_unlock", "zzz_lock"}
                      /\ sem_set.santa_busy_mutex = 0
          /\ ServiceWindowOpen =>
                /\ pc_santa \in {"line_lock", "take", "signal_elf", "line_unlock", "zzz_lock"}
                /\ sem_set.santa_busy_mutex = 0
          /\ pc_santa \in {"counter_lock", "counter_set"} =>
                /\ ~ ServiceWindowOpen
                /\ Closing = {}
                /\ NotYetDecremented = {})
    /\ [][/\ sem_set'.elf_counting_sem > sem_set.elf_counting_sem =>
                /\ sem_set.elf_counting_sem = 0
                /\ sem_set'.elf_counting_sem = K
          /\ (pc_santa = "zzz_lock" /\ pc_santa' = "zzz_unlock") => ~ ServiceWindowOpen]_vars

(* the last elf of the window is about to release santa, who waits for it *)
C20_Witness ==
    /\ \E e \in Elves : pc_elf[e] = "unlock_santa" /\ hist.being_served = {e}
    /\ pc_santa = "zzz_lock"
    /\ sem_set.santa_busy_mutex = 0

(***************************************************************************)
(* C21. Per-elf wakeup ownership: elf_line_set[e] is always 0 or 1; only   *)
(* santa's sem_signal_index in help_elves raises it, from 0 to 1, for the  *)
(* elf he has just removed from the waiting set; only elf e's own          *)
(* sem_wait_index lowers it; elf e enters get_help only by consuming that  *)
(* signal.  An elf that santa removed has exactly one of: the signal still *)
(* to come, the signal pending, or its get_help under way - one signal and *)
(* one get_help per service.                                               *)
(***************************************************************************)
C21_WakeupOwnership ==
    /\ [](\A e \in Elves :
            /\ elf_line_set[e] \in {0, 1}
            /\ elf_line_set[e] = 1 => (pc_elf[e] = "in_line" /\ e \notin elves_waiting)
            /\ (e \in hist.being_served) <=>
                  \/ pc_santa = "signal_elf" /\ elf = e
                  \/ elf_line_set[e] = 1
                  \/ pc_elf[e] \in ElfGetHelpPcs
            /\ ~ (pc_santa = "signal_elf" /\ elf = e /\ pc_elf[e] \in ElfGetHelpPcs)
            /\ ~ (elf_line_set[e] = 1 /\ pc_santa = "signal_elf" /\ elf = e))
    /\ [][\A e \in Elves :
            /\ elf_line_set'[e] > elf_line_set[e] =>
                  /\ pc_santa = "signal_elf" /\ pc_santa' \in {"take", "line_unlock"}
                  /\ elf = e
                  /\ e \in hist.taken /\ e \notin elves_waiting
                  /\ elf_line_set[e] = 0 /\ elf_line_set'[e] = 1
                  /\ pc_elf' = pc_elf
            /\ elf_line_set'[e] < elf_line_set[e] =>
                  /\ pc_elf[e] = "in_line" /\ pc_elf'[e] = "counter_lock"
                  /\ \A other \in Elves \ {e} : pc_elf'[other] = pc_elf[other]
                  /\ pc_santa' = pc_santa
            /\ (pc_elf[e] \notin ElfGetHelpPcs /\ pc_elf'[e] \in ElfGetHelpPcs) =>
                  (elf_line_set[e] = 1 /\ elf_line_set'[e] = 0)]_vars

(* one removed elf is in get_help, its signal consumed; another has its    *)
(* signal pending                                                          *)
C21_Witness ==
    /\ \E e \in hist.being_served : pc_elf[e] = "decrement" /\ elf_line_set[e] = 0
    /\ \E e \in hist.being_served : pc_elf[e] = "in_line" /\ elf_line_set[e] = 1

(***************************************************************************)
(* C22. Waiting-set membership, as the claim states it: every member of    *)
(* elves_waiting is an elf blocked in sem_wait_index on its own semaphore. *)
(***************************************************************************)
C22_AsClaimed ==
    \A e \in elves_waiting : pc_elf[e] = "in_line" /\ elf_line_set[e] = 0

(***************************************************************************)
(* C22, amended. Every member of elves_waiting is an elf that is between   *)
(* its set_insert and its get_help: it is finishing the CRITICAL section   *)
(* in which it inserted itself (the threshold test, the signal to santa,   *)
(* the release of elf_mutex) or it is blocked on its own semaphore, whose  *)
(* value is 0.  No elf is a member while it works, waits for a credit or   *)
(* for elf_mutex, or is in get_help, and an elf inserts itself only when   *)
(* it is not a member.                                                     *)
(***************************************************************************)
C22_Membership ==
    /\ [](\A e \in Elves :
            /\ e \in elves_waiting =>
                  /\ pc_elf[e] \in {"wake_santa", "line_unlock", "in_line"}
                  /\ elf_line_set[e] = 0
                  /\ e \notin hist.being_served
            /\ pc_elf[e] \in {"work", "line_lock", "insert"} \cup ElfGetHelpPcs =>
                  e \notin elves_waiting
            /\ pc_elf[e] \in {"wake_santa", "line_unlock"} => e \in elves_waiting)
    /\ [][\A e \in Elves :
            (e \in elves_waiting' /\ e \notin elves_waiting) =>
               /\ pc_elf[e] = "insert"
               /\ elves_waiting' = elves_waiting \cup {e}
               /\ set_cardinality(elves_waiting') = set_cardinality(elves_waiting) + 1]_vars

(* one member is blocked on its semaphore, another still holds elf_mutex *)
C22_Witness ==
    /\ \E e \in elves_waiting : pc_elf[e] = "in_line" /\ elf_line_set[e] = 0
    /\ \E e \in elves_waiting : pc_elf[e] = "line_unlock"

(* the reindeer that have incremented num_reindeer_waiting: arrival registered *)
Registered == {r \in Reindeer : pc_reindeer[r] \notin {"vacation", "increment"}}

(* the reindeer that hold a credit of reindeer_counting_sem or were hitched *)
Released == {r \in Reindeer : pc_reindeer[r] \in ReindeerCreditPcs}

(***************************************************************************)
(* C23. Rendezvous ordering: a reindeer is past sem_wait on                *)
(* reindeer_counting_sem, and so can get hitched, only when all N reindeer *)
(* have incremented num_reindeer_waiting and santa has executed            *)
(* prepare_sleigh; santa is on the way to prepare_sleigh or in it only     *)
(* when all N have registered, the counter is N and none was released;     *)
(* every get_hitched is a step from such a state.                          *)
(***************************************************************************)
C23_Rendezvous ==
    /\ [](/\ Released # {} =>
                /\ Registered = Reindeer
                /\ hist.sleigh_calls = 1
                /\ hist.credits = N
                /\ pc_santa \in {"deliver_busy", "deliver_sleep"}
          /\ pc_santa \in {"fix_counter", "sleigh_lock", "sleigh_signal"} =>
                /\ Registered = Reindeer
                /\ num_reindeer_waiting = N
                /\ Released = {}
                /\ \A r \in Reindeer : hist.hitched[r] = 0
          /\ \A r \in Reindeer : hist.hitched[r] > 0 => r \in Released)
    /\ [][\A r \in Reindeer :
            hist.hitched'[r] > hist.hitched[r] =>
               /\ pc_reindeer[r] = "hitch"
               /\ Registered = Reindeer
               /\ hist.credits = N
               /\ num_reindeer_waiting' = num_reindeer_waiting - 1
               /\ num_reindeer_waiting' >= 0]_vars

(* the sleigh is prepared: one reindeer is being hitched, another still waits *)
C23_Witness ==
    /\ hist.credits = N
    /\ \E r \in Reindeer : pc_reindeer[r] = "hitch"
    /\ \E r \in Reindeer : pc_reindeer[r] = "wait_sleigh"

(* santa has taken santa_busy_mutex in prepare_sleigh *)
SleighGateTaken == pc_santa \in {"sleigh_signal", "deliver_busy", "deliver_sleep"}

(***************************************************************************)
(* C24. Batch path is terminal.  From the branch to the batch path on,     *)
(* santa stays on it: he never enters help_elves again, no elf_line_set    *)
(* semaphore is signalled, and prepare_sleigh is executed once.  From his  *)
(* sem_wait(santa_busy_mutex) in prepare_sleigh on, the gate is held (its  *)
(* value is 0 and nobody signals it) in every later state of the run:      *)
(* santa blocks at "completely lock santa" and goes no further.            *)
(***************************************************************************)
C24_BatchTerminal ==
    /\ [](/\ hist.sleigh_calls \in {0, 1}
          /\ hist.sleigh_calls = 1 <=> SleighGateTaken
          /\ SleighGateTaken =>
                /\ sem_set.santa_busy_mutex = 0
                /\ SantaHolds("santa_busy_mutex")
                /\ \A e \in Elves : pc_elf[e] # "unlock_santa"
                /\ num_elves_being_helped = 0
          /\ pc_santa # "deliver_sleep")
    /\ [][(pc_santa \in SantaBatchPcs) =>
            /\ pc_santa' \in SantaBatchPcs
            /\ pc_santa' \notin SantaHelpPcs
            /\ \A e \in Elves : elf_line_set'[e] <= elf_line_set[e]
            /\ pc_santa \in {"sleigh_signal", "deliver_busy"} =>
                  /\ pc_santa' \in {"sleigh_signal", "deliver_busy"}
                  /\ pc_santa = "deliver_busy" => pc_santa' = "deliver_busy"
                  /\ sem_set'.santa_busy_mutex = 0
                  /\ hist'.sleigh_calls = 1]_vars

(* santa is locked for good while a full group of elves waits in line *)
C24_Witness ==
    /\ pc_santa = "deliver_busy"
    /\ sem_set.santa_busy_mutex = 0
    /\ set_cardinality(elves_waiting) >= K
    /\ \E r \in Reindeer : pc_reindeer[r] = "done"

(* the elves inside CRITICAL(elf_mutex, ...): insert, threshold test, signal *)
ElvesInLineSection == {e \in Elves : ElfHolds(e, "elf_mutex")}

(***************************************************************************)
(* C25. Atomic group take: santa's K removals in help_elves and an elf's   *)
(* insert-and-threshold-check exclude each other under elf_mutex.  While   *)
(* santa is between his sem_wait and his sem_signal on elf_mutex no elf is *)
(* inside its CRITICAL(elf_mutex, ...) and the waiting set only shrinks,   *)
(* by santa's set_take; the set grows only while santa is outside.  The    *)
(* lock is what excludes the K-th elf, which signals santa from inside its *)
(* critical section: santa waits at elf_mutex until that elf has left.     *)
(***************************************************************************)
C25_AtomicTake ==
    /\ [](/\ Cardinality(ElvesInLineSection)
               + (IF SantaHolds("elf_mutex") THEN 1 ELSE 0) = 1 - sem_set.elf_mutex
          /\ sem_set.elf_mutex \in {0, 1}
          /\ SantaHolds("elf_mutex") =>
                /\ ElvesInLineSection = {}
                /\ sem_set.elf_mutex = 0
                /\ elves_waiting \cap hist.taken = {}
                /\ set_cardinality(elves_waiting) + Cardinality(hist.taken) = hist.card_before)
    /\ [][/\ SantaHolds("elf_mutex") =>
                /\ elves_waiting' \subseteq elves_waiting
                /\ elves_waiting' # elves_waiting =>
                      (pc_santa = "take" /\ elves_waiting = elves_waiting' \cup {elf'})
          /\ ~ (elves_waiting' \subseteq elves_waiting) =>
                /\ ~ SantaHolds("elf_mutex")
                /\ pc_santa' = pc_santa
                /\ pc_santa \notin {"take", "signal_elf", "line_unlock"}]_vars

(* santa is in the middle of the removals, two elves taken, one to go *)
C25_Witness ==
    /\ pc_santa = "take"
    /\ i = 2
    /\ Cardinality(hist.taken) = 2
    /\ elves_waiting # {}
    /\ sem_set.elf_mutex = 0

(***************************************************************************)
(* The early draft of the program (src/unnamed/part_002, lines 803-1167).  *)
(* It has no sleep gate, no elf_mutex and no elf_counting_sem: santa polls *)
(* the two thresholds after each CRITICAL(santa_busy_mutex, ...), an elf   *)
(* inserts itself into the set and waits on its semaphore of elf_sem_set,  *)
(* and help_elves re-initialises santa_busy_mutex so that the elves it     *)
(* helps give the gate back.  The globals are those of the final program   *)
(* under the draft's names: reindeer_counter_mutex is the lock of the      *)
(* counter, elf_sem_set the per-elf semaphores (the variable elf_line_set  *)
(* here), and e1, e2, e3 of help_elves are the sequence kept in `elf`.     *)
(* Thread ids come from get_value_and_increment under id_counter_mutex     *)
(* before a thread does anything else: elf e has id e.  Santa's loop runs  *)
(* INT_MAX times, which the model does not count.                          *)
(***************************************************************************)
elf_sem_set == elf_line_set

(* sem_init(sem, value) (sem.c): the semaphore takes the value *)
sem_init(v, value) == value

DraftInit ==
    /\ sem_set = [ id_counter_mutex       |-> 1,
                   reindeer_counter_mutex |-> 1,
                   santa_busy_mutex       |-> 1,
                   reindeer_counting_sem  |-> 0 ]
    /\ elf_line_set = [e \in Elves |-> 0]
    /\ num_reindeer_waiting = 0
    /\ num_elves_being_helped = 0
    /\ elves_waiting = {}
    /\ pc_santa = "zzz_lock"
    /\ pc_elf = [e \in Elves |-> "work"]
    /\ pc_reindeer = [r \in Reindeer |-> "vacation"]
    /\ i = 0
    /\ elf = << >>
    /\ status = "running"
    /\ resources_freed = 0
    /\ freed = [res \in Resources |-> 0]
    /\ hist = no_history

(* CRITICAL(santa_busy_mutex, { random_wait(...) *)
DraftSantaZzzLock ==
    /\ Running
    /\ pc_santa = "zzz_lock"
    /\ sem_can_wait(sem_set.santa_busy_mutex)
    /\ sem_set' = SemWait("santa_busy_mutex")
    /\ pc_santa' = "zzz_unlock"
    /\ UNCHANGED << elf_line_set, shared, pc_elf, pc_reindeer, santa_locals, status, hist >>

(* }) *)
DraftSantaZzzUnlock ==
    /\ Running
    /\ pc_santa = "zzz_unlock"
    /\ sem_set' = SemSignal("santa_busy_mutex")
    /\ pc_santa' = "test_reindeer"
    /\ UNCHANGED << elf_line_set, shared, pc_elf, pc_reindeer, santa_locals, status, hist >>

(* if(NUM_REINDEER <= num_reindeer_waiting) *)
DraftSantaTestReindeer ==
    /\ Running
    /\ pc_santa = "test_reindeer"
    /\ pc_santa' = IF NUM_REINDEER <= num_reindeer_waiting
                   THEN "fix_counter" ELSE "test_elves"
    /\ UNCHANGED << sem_set, elf_line_set, shared, pc_elf, pc_reindeer, santa_locals, status, hist >>

(* num_reindeer_waiting = NUM_REINDEER *)
DraftSantaFixCounter ==
    /\ Running
    /\ pc_santa = "fix_counter"
    /\ num_reindeer_waiting' = NUM_REINDEER
    /\ pc_santa' = "sleigh_lock"
    /\ UNCHANGED << sem_set, elf_line_set, num_elves_being_helped, elves_waiting,
                    pc_elf, pc_reindeer, santa_locals, status, hist >>

(* prepare_sleigh: sem_wait(santa_busy_mutex) *)
DraftSantaSleighLock ==
    /\ Running
    /\ pc_santa = "sleigh_lock"
    /\ sem_can_wait(sem_set.santa_busy_mutex)
    /\ sem_set' = SemWait("santa_busy_mutex")
    /\ pc_santa' = "sleigh_signal"
    /\ hist' = [hist EXCEPT !.sleigh_calls = @ + 1]
    /\ UNCHANGED << elf_line_set, shared, pc_elf, pc_reindeer, santa_locals, status >>

(* prepare_sleigh: sem_signal_ntimes(reindeer_counting_sem, NUM_REINDEER); *)
(* santa goes back to the top of the loop                                  *)
DraftSantaSleighSignal ==
    /\ Running
    /\ pc_santa = "sleigh_signal"
    /\ sem_set' = [sem_set EXCEPT !.reindeer_counting_sem =
                                      sem_signal_ntimes(@, NUM_REINDEER)]
    /\ pc_santa' = "zzz_lock"
    /\ hist' = [hist EXCEPT !.credits = @ + NUM_REINDEER]
    /\ UNCHANGED << elf_line_set, shared, pc_elf, pc_reindeer, santa_locals, status >>

(* else if(3 <= set_cardinality(elves_waiting)) *)
DraftSantaTestElves ==
    /\ Running
    /\ pc_santa = "test_elves"
    /\ pc_santa' = IF SANTA_GROUP_TEST <= set_cardinality(elves_waiting)
                   THEN "help_lock" ELSE "zzz_lock"
    /\ UNCHANGED << sem_set, elf_line_set, shared, pc_elf, pc_reindeer, santa_locals, status, hist >>

(* help_elves: sem_wait(santa_busy_mutex) *)
DraftSantaHelpLock ==
    /\ Running
    /\ pc_santa = "help_lock"
    /\ sem_can_wait(sem_set.santa_busy_mutex)
    /\ sem_set' = SemWait("santa_busy_mutex")
    /\ pc_santa' = "help_init"
    /\ UNCHANGED << elf_line_set, shared, pc_elf, pc_reindeer, santa_locals, status, hist >>

(* help_elves: sem_init(santa_busy_mutex, 1 - NUM_ELVES) *)
DraftSantaHelpInit ==
    /\ Running
    /\ pc_santa = "help_init"
    /\ sem_set' = [sem_set EXCEPT !.santa_busy_mutex = sem_init(@, 1 - NUM_ELVES)]
    /\ pc_santa' = "take"
    /\ hist' = [hist EXCEPT !.taken = {}, !.signalled = {}]
    /\ UNCHANGED << elf_line_set, shared, pc_elf, pc_reindeer, santa_locals, status >>

(* e1 = set_take(elves_waiting); e2 = ...; e3 = ...: one call per step *)
DraftSantaTake ==
    /\ Running
    /\ pc_santa = "take"
    /\ IF elves_waiting = {}
       THEN /\ status' = "failure"
            /\ UNCHANGED << elves_waiting, elf, pc_santa, hist >>
       ELSE \E item \in elves_waiting :
              /\ elves_waiting' = set_take_from(elves_waiting, item)
              /\ elf' = Append(elf, item)
              /\ pc_santa' = IF Len(elf) + 1 < 3 THEN "take" ELSE "signal_elf"
              /\ hist' = [hist EXCEPT !.taken = @ \cup {item},
                                      !.being_served = @ \cup {item}]
              /\ UNCHANGED status
    /\ UNCHANGED << sem_set, elf_line_set, num_reindeer_waiting,
                    num_elves_being_helped, pc_elf, pc_reindeer, i >>

(* sem_signal_index(&elf_sem_set, e1, 1); ... e2 ...; ... e3 ...: one call *)
(* per step; after the third help_elves returns                            *)
DraftSantaSignalElf ==
    /\ Running
    /\ pc_santa = "signal_elf"
    /\ elf_line_set' = [elf_line_set EXCEPT ![elf[i + 1]] = sem_signal(@)]
    /\ hist' = [hist EXCEPT !.signalled = @ \cup {elf[i + 1]}]
    /\ IF i + 1 < 3
       THEN /\ i' = i + 1
            /\ UNCHANGED << elf, pc_santa >>
       ELSE /\ i' = 0
            /\ elf' = << >>
            /\ pc_santa' = "zzz_lock"
    /\ UNCHANGED << sem_set, shared, pc_elf, pc_reindeer, status >>

DraftSanta ==
    /\ \/ DraftSantaZzzLock \/ DraftSantaZzzUnlock
       \/ DraftSantaTestReindeer \/ DraftSantaFixCounter
       \/ DraftSantaSleighLock \/ DraftSantaSleighSignal
       \/ DraftSantaTestElves
       \/ DraftSantaHelpLock \/ DraftSantaHelpInit
       \/ DraftSantaTake \/ DraftSantaSignalElf
    /\ UNCHANGED teardown

(* random_wait; set_insert(elves_waiting, id): no lock, no credit *)
DraftElfInsert(e) ==
    /\ Running
    /\ pc_elf[e] = "work"
    /\ elves_waiting' = set_insert(elves_waiting, e)
    /\ pc_elf' = [pc_elf EXCEPT ![e] = "in_line"]
    /\ UNCHANGED << sem_set, elf_line_set, num_reindeer_waiting, num_elves_being_helped,
                    pc_santa, pc_reindeer, santa_locals, status, hist >>

(* wait_for_santa: sem_wait_index(set, id) *)
DraftElfWaitForSanta(e) ==
    /\ Running
    /\ pc_elf[e] = "in_line"
    /\ sem_can_wait(elf_line_set[e])
    /\ elf_line_set' = [elf_line_set EXCEPT ![e] = sem_wait(@)]
    /\ pc_elf' = [pc_elf EXCEPT ![e] = "get_help"]
    /\ UNCHANGED << sem_set, shared, pc_santa, pc_reindeer, santa_locals, status, hist >>

(* get_help: sem_signal(santa_busy_mutex) *)
DraftElfGetHelp(e) ==
    /\ Running
    /\ pc_elf[e] = "get_help"
    /\ sem_set' = SemSignal("santa_busy_mutex")
    /\ pc_elf' = [pc_elf EXCEPT ![e] = "work"]
    /\ hist' = [hist EXCEPT !.being_served = @ \ {e}]
    /\ UNCHANGED << elf_line_set, shared, pc_santa, pc_reindeer, santa_locals, status >>

DraftElf(e) ==
    /\ \/ DraftElfInsert(e) \/ DraftElfWaitForSanta(e) \/ DraftElfGetHelp(e)
    /\ UNCHANGED teardown

(* random_wait; CRITICAL(reindeer_counter_mutex, { *)
DraftReindeerVacation(r) ==
    /\ Running
    /\ pc_reindeer[r] = "vacation"
    /\ sem_can_wait(sem_set.reindeer_counter_mutex)
    /\ sem_set' = SemWait("reindeer_counter_mutex")
    /\ pc_reindeer' = [pc_reindeer EXCEPT ![r] = "increment"]
    /\ UNCHANGED << elf_line_set, shared, pc_santa, pc_elf, santa_locals, status, hist >>

(* ++num_reindeer_waiting; }) *)
DraftReindeerIncrement(r) ==
    /\ Running
    /\ pc_reindeer[r] = "increment"
    /\ num_reindeer_waiting' = num_reindeer_waiting + 1
    /\ sem_set' = SemSignal("reindeer_counter_mutex")
    /\ pc_reindeer' = [pc_reindeer EXCEPT ![r] = "wait_sleigh"]
    /\ UNCHANGED << elf_line_set, num_elves_being_helped, elves_waiting,
                    pc_santa, pc_elf, santa_locals, status, hist >>

(* sem_wait(reindeer_counting_sem) *)
DraftReindeerWaitSleigh(r) ==
    /\ Running
    /\ pc_reindeer[r] = "wait_sleigh"
    /\ sem_can_wait(sem_set.reindeer_counting_sem)
    /\ sem_set' = SemWait("reindeer_counting_sem")
    /\ pc_reindeer' = [pc_reindeer EXCEPT ![r] = "hitch_lock"]
    /\ UNCHANGED << elf_line_set, shared, pc_santa, pc_elf, santa_locals, status, hist >>

(* CRITICAL(reindeer_counter_mutex, { *)
DraftReindeerHitchLock(r) ==
    /\ Running
    /\ pc_reindeer[r] = "hitch_lock"
    /\ sem_can_wait(sem_set.reindeer_counter_mutex)
    /\ sem_set' = SemWait("reindeer_counter_mutex")
    /\ pc_reindeer' = [pc_reindeer EXCEPT ![r] = "hitch"]
    /\ UNCHANGED << elf_line_set, shared, pc_santa, pc_elf, santa_locals, status, hist >>

(* get_hitched(id); --num_reindeer_waiting; if(0 == ...) exit(EXIT_SUCCESS); }) *)
DraftReindeerHitch(r) ==
    /\ Running
    /\ pc_reindeer[r] = "hitch"
    /\ num_reindeer_waiting' = num_reindeer_waiting - 1
    /\ IF 0 = num_reindeer_waiting - 1
       THEN /\ exit("success")
            /\ pc_reindeer' = [pc_reindeer EXCEPT ![r] = "exit"]
            /\ hist' = [hist EXCEPT !.hitched[r] = @ + 1, !.free_calls = @ + 1]
            /\ UNCHANGED sem_set
       ELSE /\ sem_set' = SemSignal("reindeer_counter_mutex")
            /\ pc_reindeer' = [pc_reindeer EXCEPT ![r] = "done"]
            /\ hist' = [hist EXCEPT !.hitched[r] = @ + 1]
            /\ UNCHANGED << status, teardown >>
    /\ UNCHANGED << elf_line_set, num_elves_being_helped, elves_waiting,
                    pc_santa, pc_elf, santa_locals >>

DraftReindeerThread(r) ==
    \/ /\ \/ DraftReindeerVacation(r) \/ DraftReindeerIncrement(r)
          \/ DraftReindeerWaitSleigh(r) \/ DraftReindeerHitchLock(r)
       /\ UNCHANGED teardown
    \/ DraftReindeerHitch(r)

DraftNext ==
    \/ DraftSanta
    \/ \E e \in Elves : DraftElf(e)
    \/ \E r \in Reindeer : DraftReindeerThread(r)

DraftSpec == DraftInit /\ [][DraftNext]_vars

(***************************************************************************)
(* C26. Early-draft gate re-initialisation, as the claim and the comment   *)
(* of help_elves state it: the step in which the last elf of the helped    *)
(* group signals santa_busy_mutex in get_help leaves the value 1.          *)
(***************************************************************************)
C26_AsClaimed ==
    [][(hist.being_served # {} /\ hist'.being_served = {}) =>
          sem_set'.santa_busy_mutex = 1]_vars

(***************************************************************************)
(* C27. No spurious wake: when santa has returned from                     *)
(* sem_wait(santa_sleep_mutex) at the top of a cycle and evaluates the     *)
(* thresholds, num_reindeer_waiting >= N or the waiting set holds at least *)
(* K elves; when he comes to the test of the elves, the set holds at least *)
(* K.  So no cycle ends with neither prepare_sleigh nor help_elves: santa  *)
(* never goes from a test back to the top of the loop, however many        *)
(* signals santa_sleep_mutex has received.                                 *)
(***************************************************************************)
C27_NoSpuriousWake ==
    /\ [](/\ pc_santa = "test_reindeer" =>
                \/ num_reindeer_waiting >= N
                \/ set_cardinality(elves_waiting) >= K
          /\ pc_santa = "test_elves" =>
                set_cardinality(elves_waiting) >= SANTA_GROUP_TEST)
    /\ [][(pc_santa \in {"test_reindeer", "test_elves"}) =>
             pc_santa' \in {"test_reindeer", "test_elves", "fix_counter", "help_lock"}]_vars

(* santa, woken by the elves, tests the elves while a reindeer's signal is *)
(* already pending on santa_sleep_mutex                                    *)
C27_Witness ==
    /\ pc_santa = "test_elves"
    /\ sem_set.santa_sleep_mutex >= 1
    /\ hist.reindeer_triggers >= 1
    /\ hist.elf_triggers = 1

(***************************************************************************)
(* C28. Counter clamp is a no-op: whenever santa is at the assignment      *)
(* num_reindeer_waiting = NUM_REINDEER the counter is N already, every     *)
(* reindeer has made its increment and none can yet make its decrement     *)
(* (no credit was released), so no reindeer is inside                      *)
(* CRITICAL(reindeer_counter_lock, ...); the step of the assignment leaves *)
(* the counter as it was.                                                  *)
(***************************************************************************)
C28_ClampNoOp ==
    /\ [](pc_santa = "fix_counter" =>
             /\ num_reindeer_waiting = NUM_REINDEER
             /\ \A r \in Reindeer :
                   pc_reindeer[r] \in {"test_last", "wake_santa", "wait_sleigh"}
             /\ sem_set.reindeer_counting_sem = 0
             /\ sem_set.reindeer_counter_lock = 1)
    /\ [][(pc_santa = "fix_counter" /\ pc_santa' # "fix_counter") =>
             /\ pc_santa' = "sleigh_lock"
             /\ num_reindeer_waiting' = num_reindeer_waiting
             /\ pc_reindeer' = pc_reindeer]_vars

(* santa has made the assignment while a reindeer was between its          *)
(* increment and its wait for the sleigh                                   *)
C28_Witness ==
    /\ pc_santa = "sleigh_lock"
    /\ num_reindeer_waiting = NUM_REINDEER
    /\ \E r \in Reindeer : pc_reindeer[r] \in {"test_last", "wake_santa"}

(***************************************************************************)
(* The trunk version of the program (src/trunk/main.c).  It has no         *)
(* santa_sleep_mutex: santa polls the two thresholds after each            *)
(* CRITICAL(santa_busy_mutex, ...), and after prepare_sleigh he waits on   *)
(* christmas_mutex.  An elf waits on its semaphore of elf_line_set inside  *)
(* CRITICAL(elf_mutex, ...), right after set_insert, and the reindeer do   *)
(* not signal santa.  The functions the trunk shares word for word with    *)
(* the final program (prepare_sleigh's sem_wait, the tests of santa, the   *)
(* body of help_elves, get_help, the reindeer's two critical sections) are *)
(* the actions defined for it above; the actions below are the statements  *)
(* that differ.  Thread ids come from get_value_and_increment under        *)
(* id_counter_mutex before a thread does anything else: elf e has id e.    *)
(* Santa's loop runs INT_MAX times, which the model does not count.        *)
(***************************************************************************)
TrunkInit ==
    /\ sem_set = [ elf_mutex             |-> 1,
                   id_counter_mutex      |-> 1,
                   reindeer_counter_lock |-> 1,
                   elf_counter_lock      |-> 1,
                   santa_busy_mutex      |-> 1,
                   christmas_mutex       |-> 0,
                   reindeer_counting_sem |-> 0,
                   elf_counting_sem      |-> NUM_ELVES_PER_GROUP ]
    /\ elf_line_set = [e \in Elves |-> 0]
    /\ num_reindeer_waiting = 0
    /\ num_elves_being_helped = 0
    /\ elves_waiting = {}
    /\ pc_santa = "zzz_lock"
    /\ pc_elf = [e \in Elves |-> "work"]
    /\ pc_reindeer = [r \in Reindeer |-> "vacation"]
    /\ i = 0
    /\ elf = 0
    /\ status = "running"
    /\ resources_freed = 0
    /\ freed = [res \in Resources |-> 0]
    /\ hist = no_history

(* the end of CRITICAL(santa_busy_mutex, ...): santa goes on to the tests *)
TrunkSantaZzzUnlock ==
    /\ Running
    /\ pc_santa = "zzz_unlock"
    /\ sem_set' = SemSignal("santa_busy_mutex")
    /\ pc_santa' = "test_reindeer"
    /\ UNCHANGED << elf_line_set, shared, pc_elf, pc_reindeer, santa_locals, status, hist >>

(* mutant: sem_signal in place of sem_signal_ntimes *)
TrunkSantaSleighSignal_Once ==
    /\ Running
    /\ pc_santa = "sleigh_signal"
    /\ sem_set' = SemSignal("reindeer_counting_sem")
    /\ pc_santa' = "christmas"
    /\ hist' = [hist EXCEPT !.credits =
                    @ + sem_set'.reindeer_counting_sem - sem_set.reindeer_counting_sem]
    /\ UNCHANGED << elf_line_set, shared, pc_elf, pc_reindeer, santa_locals, status >>

(* prepare_sleigh: sem_signal_ntimes(reindeer_counting_sem, NUM_REINDEER); *)
(* santa goes on to sem_wait(christmas_mutex)                              *)
TrunkSantaSleighSignal ==
    /\ Running
    /\ pc_santa = "sleigh_signal"
    /\ sem_set' = [sem_set EXCEPT !.reindeer_counting_sem =
                                      sem_signal_ntimes(@, NUM_REINDEER)]
    /\ pc_santa' = "christmas"
    /\ hist' = [hist EXCEPT !.credits =
                    @ + sem_set'.reindeer_counting_sem - sem_set.reindeer_counting_sem]
    /\ UNCHANGED << elf_line_set, shared, pc_elf, pc_reindeer, santa_locals, status >>

(* sem_wait(christmas_mutex) *)
TrunkSantaChristmas ==
    /\ Running
    /\ pc_santa = "christmas"
    /\ sem_can_wait(sem_set.christmas_mutex)
    /\ sem_set' = SemWait("christmas_mutex")
    /\ pc_santa' = "zzz_lock"
    /\ UNCHANGED << elf_line_set, shared, pc_elf, pc_reindeer, santa_locals, status, hist >>

(* the values an int that was never assigned may hold *)
IndeterminateInt == -1 .. NUM_ELVES_PER_GROUP

(* help_elves: CRITICAL(elf_mutex, { for(i = i; i < K; ++i): i was never   *)
(* assigned, the loop starts from whatever it holds                        *)
TrunkSantaLineLock ==
    /\ Running
    /\ pc_santa = "line_lock"
    /\ sem_can_wait(sem_set.elf_mutex)
    /\ sem_set' = SemWait("elf_mutex")
    /\ \E v \in IndeterminateInt :
          /\ i' = v
          /\ pc_santa' = IF v < NUM_ELVES_PER_GROUP THEN "take" ELSE "line_unlock"
    /\ hist' = [hist EXCEPT !.taken = {},
                            !.signalled = {},
                            !.card_before = set_cardinality(elves_waiting)]
    /\ UNCHANGED << elf_line_set, shared, pc_elf, pc_reindeer, elf, status >>

TrunkSanta ==
    /\ \/ SantaWaitBusy \/ TrunkSantaZzzUnlock
       \/ SantaTestReindeer \/ SantaFixCounter \/ TrunkSantaSleighSignal
       \/ TrunkSantaChristmas
       \/ SantaTestElves
       \/ SantaCounterLock \/ SantaCounterSet
       \/ TrunkSantaLineLock \/ SantaTake \/ SantaSignalElf \/ SantaLineUnlock
    /\ UNCHANGED teardown

(* mutant: the elf leaves CRITICAL(elf_mutex, ...) before it waits *)
TrunkElfInsert_Unlock(e) ==
    /\ Running
    /\ pc_elf[e] = "insert"
    /\ elves_waiting' = set_insert(elves_waiting, e)
    /\ sem_set' = SemSignal("elf_mutex")
    /\ pc_elf' = [pc_elf EXCEPT ![e] = "in_line"]
    /\ UNCHANGED << elf_line_set, num_reindeer_waiting, num_elves_being_helped,
                    pc_santa, pc_reindeer, santa_locals, status, hist >>

(* set_insert(elves_waiting, id), inside CRITICAL(elf_mutex, ...) *)
TrunkElfInsert(e) ==
    /\ Running
    /\ pc_elf[e] = "insert"
    /\ elves_waiting' = set_insert(elves_waiting, e)
    /\ pc_elf' = [pc_elf EXCEPT ![e] = "in_line"]
    /\ UNCHANGED << sem_set, elf_line_set, num_reindeer_waiting, num_elves_being_helped,
                    pc_santa, pc_reindeer, santa_locals, status, hist >>

(* sem_wait_index(&elf_line_set, id), still inside CRITICAL(elf_mutex, ...) *)
TrunkElfInLine(e) ==
    /\ Running
    /\ pc_elf[e] = "in_line"
    /\ sem_can_wait(elf_line_set[e])
    /\ elf_line_set' = [elf_line_set EXCEPT ![e] = sem_wait(@)]
    /\ pc_elf' = [pc_elf EXCEPT ![e] = "line_unlock"]
    /\ UNCHANGED << sem_set, shared, pc_santa, pc_reindeer, santa_locals, status, hist >>

(* }) : the end of CRITICAL(elf_mutex, ...); get_help(id) follows *)
TrunkElfLineUnlock(e) ==
    /\ Running
    /\ pc_elf[e] = "line_unlock"
    /\ sem_set' = SemSignal("elf_mutex")
    /\ pc_elf' = [pc_elf EXCEPT ![e] = "counter_lock"]
    /\ UNCHANGED << elf_line_set, shared, pc_santa, pc_reindeer, santa_locals, status, hist >>

TrunkElf(e) ==
    /\ \/ ElfWork(e) \/ ElfLineLock(e) \/ TrunkElfInsert(e)
       \/ TrunkElfInLine(e) \/ TrunkElfLineUnlock(e)
       \/ ElfCounterLock(e) \/ ElfDecrement(e) \/ ElfUnlockSanta(e)
       \/ ElfReturnCredits(e) \/ ElfCounterUnlock(e)
    /\ UNCHANGED teardown

(* ++num_reindeer_waiting; }) : the reindeer goes on to wait for the sleigh *)
TrunkReindeerIncrement(r) ==
    /\ Running
    /\ pc_reindeer[r] = "increment"
    /\ num_reindeer_waiting' = num_reindeer_waiting + 1
    /\ sem_set' = SemSignal("reindeer_counter_lock")
    /\ pc_reindeer' = [pc_reindeer EXCEPT ![r] = "wait_sleigh"]
    /\ UNCHANGED << elf_line_set, num_elves_being_helped, elves_waiting,
                    pc_santa, pc_elf, santa_locals, status, hist >>

TrunkReindeerThread(r) ==
    \/ /\ \/ ReindeerVacation(r) \/ TrunkReindeerIncrement(r)
          \/ ReindeerWaitSleigh(r) \/ ReindeerHitchLock(r)
       /\ UNCHANGED teardown
    \/ ReindeerHitch(r)

TrunkNext ==
    \/ TrunkSanta
    \/ \E e \in Elves : TrunkElf(e)
    \/ \E r \in Reindeer : TrunkReindeerThread(r)

TrunkSpec == TrunkInit /\ [][TrunkNext]_vars

(* every thread is scheduled: each delay is finite *)
TrunkFairSpec ==
    /\ TrunkSpec
    /\ WF_vars(TrunkSanta)
    /\ \A e \in Elves : WF_vars(TrunkElf(e))
    /\ \A r \in Reindeer : WF_vars(TrunkReindeerThread(r))

(***************************************************************************)
(* C29: in the trunk version an elf waits on its own semaphore of          *)
(* elf_line_set while it still holds elf_mutex, and only help_elves        *)
(* signals that semaphore.  So at most one elf is ever a member of         *)
(* elves_waiting, the cardinality never reaches NUM_ELVES_PER_GROUP, santa *)
(* never executes help_elves, no elf reaches get_help, and an elf that     *)
(* reached the line stays blocked for the rest of the run: the member on   *)
(* its semaphore, which stays 0, and the elves behind it on elf_mutex,     *)
(* which the member holds.                                                 *)
(***************************************************************************)
C29_TrunkElfLine ==
    /\ [](/\ Cardinality(elves_waiting) <= 1
          /\ set_cardinality(elves_waiting) < NUM_ELVES_PER_GROUP
          /\ pc_santa \notin SantaHelpPcs
          /\ num_elves_being_helped = 0
          /\ \A e \in Elves :
                /\ pc_elf[e] \in {"work", "line_lock", "insert", "in_line"}
                /\ elf_line_set[e] = 0
                /\ e \in elves_waiting <=> pc_elf[e] = "in_line"
                /\ e \in elves_waiting => sem_set.elf_mutex = 0)
    /\ [][\A e \in Elves :
             /\ pc_elf[e] = "in_line" => pc_elf'[e] = "in_line"
             /\ (pc_elf[e] = "line_lock" /\ elves_waiting # {}) =>
                    pc_elf'[e] = "line_lock"
             /\ e \in elves_waiting => e \in elves_waiting']_vars

(* one elf is in the line holding elf_mutex, the other elves of its group  *)
(* wait for elf_mutex, no credit is left, and santa finds too few elves    *)
C29_Witness ==
    /\ \E e \in Elves :
          /\ elves_waiting = {e}
          /\ pc_elf[e] = "in_line"
    /\ sem_set.elf_mutex = 0
    /\ sem_set.elf_counting_sem = 0
    /\ Cardinality({f \in Elves : pc_elf[f] = "line_lock"}) = NUM_ELVES_PER_GROUP - 1
    /\ pc_santa = "test_elves"

====
